---- MODULE Spec2Model ----
(***************************************************************************)
(* HolidaiButler content repair pipeline: verification parsing (R4), the   *)
(* safeguard gate (R5), staged promotion / rollback with audit trail (R5), *)
(* the later maintenance writers (R6/R6b) and the checkpointed batch       *)
(* runner (R4).                                                            *)
(*                                                                         *)
(* Conventions.                                                            *)
(*  - A text is a sequence of word tokens; '' is <<>>.  A markdown link    *)
(*    "[w](url)" is one token.  SQL NULL is the one-token text Null.       *)
(*  - A rate is an integer in thousandths (0.20 is 200, 1.0 is 1000).      *)
(*  - An optional value (a dict key that may be missing) is <<>> or <<v>>. *)
(***************************************************************************)
EXTENDS Integers, Sequences, FiniteSets, TLC

VARIABLES
    POI,        \* production table: poi id -> enriched_detail_description
    staging,    \* poi_content_staging (R4 batch): poi id -> row, or NoRow
    history,    \* poi_content_history, in created_at order
    last,       \* what the operation that ran last did
    vin,        \* input of the pure-function harness
    vout,       \* output of the pure-function harness
    bpc,        \* batch runner: position of the process
    sheets,     \* batch runner: fact sheets file (sequence of poi ids)
    ckpt,       \* batch runner: checkpoint file
    resfile,    \* batch runner: results file
    mem,        \* batch runner: in-memory state of the running process
    bstaging,   \* batch runner: staging rows written (poi id -> result)
    calls       \* batch runner: number of process_single_poi calls per poi

vars == <<POI, staging, history, last, vin, vout,
          bpc, sheets, ckpt, resfile, mem, bstaging, calls>>

pipeVars  == <<POI, staging, history, last>>
pureVars  == <<vin, vout>>
batchVars == <<bpc, sheets, ckpt, resfile, mem, bstaging, calls>>

-----------------------------------------------------------------------------
(* Optional values and small helpers *)

Get(opt, default) == IF opt = <<>> THEN default ELSE opt[1]

Some(v) == <<v>>

Prefix(s, n) == [i \in 1..(IF Len(s) < n THEN Len(s) ELSE n) |-> s[i]]

Range(s) == {s[i] : i \in 1..Len(s)}

Words(n) == [i \in 1..n |-> "w"]

Null == <<"NULL">>

\* variant: only None is read as missing
Truthy_NotNone(text) == text # Null

\* Python truthiness of a text value: None and '' are falsy
Truthy(text) == text # <<>> /\ text # Null

-----------------------------------------------------------------------------
(* fase_r4_regeneration.py: constants *)

REVIEW_THRESHOLD == 200

RATE_ONE == 1000

WORD_COUNT_RETRIES == 1

WORD_TARGETS ==
    [rich     |-> [min |-> 110, max |-> 140],
     moderate |-> [min |-> 85,  max |-> 115],
     minimal  |-> [min |-> 55,  max |-> 85],
     none     |-> [min |-> 30,  max |-> 60]]

Tiers == {"rich", "moderate", "minimal", "none"}

WordTargetsGet(quality) ==
    IF quality \in Tiers THEN WORD_TARGETS[quality] ELSE WORD_TARGETS["none"]

STATUS_MAP ==
    [PASS |-> "approved", REVIEW |-> "pending",
     FAIL |-> "review_required", ERROR |-> "review_required"]

StatusMapGet(verdict) ==
    IF verdict \in DOMAIN STATUS_MAP THEN STATUS_MAP[verdict] ELSE STATUS_MAP["ERROR"]

count_words(text) == Len(text)

IsErrorText(text) == text # <<>> /\ text[1] = "ERROR:"

ErrorText == <<"ERROR:", "HTTP", "400">>

-----------------------------------------------------------------------------
(* call_mistral.  outcomes[k] is what the k-th urlopen of the call does:    *)
(*   kind "ok"    a response whose JSON holds the message content           *)
(*        "http"  urllib.error.HTTPError with status code `code`; body_ok   *)
(*                tells whether e.read().decode('utf-8') in the handler     *)
(*                succeeds                                                  *)
(*        "exc"   any other exception (timeout, connection error, a         *)
(*                response without the expected keys)                       *)
(* The result tells how the call ended ("text", "ERROR", or "raised" when   *)
(* an exception leaves the function), after how many attempts, and the      *)
(* waits in between.                                                        *)

MAX_RETRIES == 3

RETRY_DELAY == 3

CallResult(result, attempts, waits) ==
    [result |-> result, attempts |-> attempts, waits |-> waits]

RECURSIVE Attempts(_, _, _)
Attempts(outcomes, attempt, waits) ==
    IF attempt >= MAX_RETRIES THEN CallResult("ERROR", attempt, waits)
    ELSE LET o == outcomes[attempt + 1] IN
         IF o.kind = "ok" THEN CallResult("text", attempt + 1, waits)
         ELSE IF o.kind = "http" THEN
             IF ~o.body_ok THEN CallResult("raised", attempt + 1, waits)
             ELSE IF o.code = 429 THEN
                 Attempts(outcomes, attempt + 1,
                          Append(waits, [after |-> 429,
                                         seconds |-> RETRY_DELAY * (attempt + 2)]))
             ELSE IF o.code >= 500 THEN
                 Attempts(outcomes, attempt + 1,
                          Append(waits, [after |-> o.code, seconds |-> RETRY_DELAY]))
             ELSE CallResult("ERROR", attempt + 1, waits)
         ELSE IF attempt < MAX_RETRIES - 1 THEN
             Attempts(outcomes, attempt + 1,
                      Append(waits, [after |-> 0, seconds |-> RETRY_DELAY]))
         ELSE CallResult("ERROR", attempt + 1, waits)

call_mistral(outcomes) == Attempts(outcomes, 0, <<>>)

-----------------------------------------------------------------------------
(* parse_verification.  A response of the text service is described by what *)
(* the parser can observe of it:                                            *)
(*   form     "error"   the string starts with 'ERROR:'                     *)
(*            "json"    re.search finds {...} and json.loads accepts it     *)
(*            "badjson" re.search finds {...} and json.loads raises         *)
(*            "nobrace" re.search finds no {...}                            *)
(*   verdict, rate, unsupported, total_claims   the value of the field of   *)
(*            that name in the text, if the text holds one                  *)
(*   unsupported_claims   severities of the listed unsupported claims       *)
(*   mentions the words among PASS/REVIEW/FAIL that occur in the raw text   *)

VerdictWords == <<"PASS", "REVIEW", "FAIL">>

VerdictByRate(rate) ==
    IF rate = 0 THEN "PASS"
    ELSE IF rate <= REVIEW_THRESHOLD THEN "REVIEW"
    ELSE "FAIL"

ErrorVerification(note) ==
    [verdict |-> Some("ERROR"), hallucination_rate |-> Some(RATE_ONE),
     unsupported |-> <<>>, total_claims |-> <<>>,
     unsupported_claims |-> <<>>, note |-> note]

MentionFallback(response) ==
    LET found == {i \in 1..3 : VerdictWords[i] \in response.mentions} IN
    IF found = {} THEN ErrorVerification("unparsed")
    ELSE LET i == CHOOSE j \in found : \A k \in found : j <= k
             v == VerdictWords[i] IN
         [verdict |-> Some(v),
          hallucination_rate |-> Some(IF v = "PASS" THEN 0
                                      ELSE IF v = "REVIEW" THEN 150 ELSE 300),
          unsupported |-> <<>>, total_claims |-> <<>>,
          unsupported_claims |-> <<>>, note |-> "fallback"]

parse_verification(response) ==
    IF response.form = "error" THEN ErrorVerification("api_error")
    ELSE IF response.form = "json" THEN
        [verdict |-> IF response.verdict # <<>> THEN response.verdict
                     ELSE Some(VerdictByRate(Get(response.rate, 0))),
         hallucination_rate |-> response.rate,
         unsupported |-> response.unsupported,
         total_claims |-> response.total_claims,
         unsupported_claims |-> response.unsupported_claims,
         note |-> "none"]
    ELSE IF response.form = "badjson"
            /\ response.verdict # <<>>
            /\ response.verdict[1] \in Range(VerdictWords) THEN
        [verdict |-> response.verdict,
         hallucination_rate |-> Some(Get(response.rate, 500)),
         unsupported |-> Some(Get(response.unsupported, 0)),
         total_claims |-> Some(Get(response.total_claims, 0)),
         unsupported_claims |-> <<>>, note |-> "truncated"]
    ELSE MentionFallback(response)

-----------------------------------------------------------------------------
(* process_single_poi.  gen1 is what call_mistral returned for the          *)
(* generation call, gen2 what it returns for the word-count retry call,     *)
(* verify_response what it returns for the verification call.               *)

\* variant: only a text that is too short is out of range
OutOfRange_MinOnly(word_count, targets) ==
    word_count < targets.min

OutOfRange(word_count, targets) ==
    word_count < targets.min \/ word_count > targets.max

Recommendation(verdict, verification) ==
    IF verdict = "PASS" \/ verdict = "REVIEW" THEN "USE_NEW"
    ELSE IF verdict = "FAIL" THEN
        IF \E i \in 1..Len(verification.unsupported_claims) :
               verification.unsupported_claims[i] = "HIGH"
        THEN "MANUAL_REVIEW" ELSE "USE_NEW"
    ELSE "MANUAL_REVIEW"

process_single_poi(fact_sheet, old_content, gen1, gen2, verify_response) ==
    LET quality == fact_sheet.data_quality
        targets == WordTargetsGet(quality)
    IN
    IF IsErrorText(gen1) THEN
        [poi_id |-> fact_sheet.poi_id,
         destination_id |-> fact_sheet.destination_id,
         data_quality |-> quality,
         old_content |-> old_content,
         new_content |-> <<>>,
         error |-> TRUE,
         verdict |-> "ERROR",
         status |-> STATUS_MAP["ERROR"],
         recommendation |-> "MANUAL_REVIEW",
         word_count_ok |-> <<>>,
         word_retries |-> <<>>,
         verification |-> <<>>,
         hallucination_rate |-> <<>>,
         llm_context |-> <<>>]
    ELSE
    LET retry == OutOfRange(count_words(gen1), targets) /\ 0 < WORD_COUNT_RETRIES
        generated_text == IF retry THEN gen2 ELSE gen1
        word_count == IF retry /\ ~IsErrorText(gen2)
                      THEN count_words(gen2) ELSE count_words(gen1)
        verification == parse_verification(verify_response)
        verdict == Get(verification.verdict, "ERROR")
        rate == Get(verification.hallucination_rate, 0 - RATE_ONE)
    IN
        [poi_id |-> fact_sheet.poi_id,
         destination_id |-> fact_sheet.destination_id,
         data_quality |-> quality,
         old_content |-> old_content,
         new_content |-> generated_text,
         error |-> FALSE,
         verdict |-> verdict,
         status |-> StatusMapGet(verdict),
         recommendation |-> Recommendation(verdict, verification),
         word_count_ok |-> Some(targets.min <= word_count /\ word_count <= targets.max),
         word_retries |-> Some(IF retry THEN 1 ELSE 0),
         verification |-> Some(verification),
         hallucination_rate |-> Some(rate),
         llm_context |-> Some(
            [data_quality |-> quality,
             word_count |-> word_count,
             verification_verdict |-> verdict,
             hallucination_rate |-> Some(rate),
             unsupported_count |-> Get(verification.unsupported, 0),
             total_claims |-> Get(verification.total_claims, 0),
             unsupported_claims |-> Prefix(verification.unsupported_claims, 5)])]

-----------------------------------------------------------------------------
(* fase_r5_safeguards.py *)

KNOWN_DESTINATIONS == {1, 2}

MAX_HALLUCINATION_RATE == 200

MAX_HALLUCINATION_RATE_NONE == 300

EMBELLISHMENT_BLOCKLIST ==
    {"unique", "modern", "cosy", "cozy", "convenient", "charming",
     "inviting", "vibrant", "delightful", "exceptional", "exquisite",
     "stunning", "breathtaking", "magnificent", "spectacular",
     "world-class", "must-visit", "hidden gem", "best-kept secret",
     "unforgettable", "unparalleled", "state-of-the-art",
     "award-winning", "renowned", "prestigious", "iconic"}

\* int(targets['min'] * 0.8), int(targets['max'] * 1.2)
MinWords(targets) == (targets.min * 8) \div 10

MaxWords(targets) == (targets.max * 12) \div 10

\* variant: only the first unsupported claim is inspected
HighSeverityClaims_FirstOnly(unsupported_claims) ==
    {i \in 1..Len(unsupported_claims) : i = 1 /\ unsupported_claims[i] = "HIGH"}

HighSeverityClaims(unsupported_claims) ==
    {i \in 1..Len(unsupported_claims) : unsupported_claims[i] = "HIGH"}

\* variant: every stored rate is read as a percentage
NormalizedRate_AlwaysPercent(llm_context_json) ==
    LET raw == IF llm_context_json = <<>> THEN RATE_ONE
               ELSE Get(llm_context_json[1].hallucination_rate, RATE_ONE)
    IN raw \div 100

\* the rate the rules compare: a value above 1 is read as a percentage
NormalizedRate(llm_context_json) ==
    LET raw == IF llm_context_json = <<>> THEN RATE_ONE
               ELSE Get(llm_context_json[1].hallucination_rate, RATE_ONE)
    IN IF raw > RATE_ONE THEN raw \div 100 ELSE raw

\* variant: embellishment vocabulary is a blocking reason
validate_content_EmbellishmentBlocks(poi_id, new_content, llm_context_json, destination_id) ==
    LET data_quality == IF llm_context_json = <<>> THEN "none"
                        ELSE llm_context_json[1].data_quality
        hallucination_rate == NormalizedRate(llm_context_json)
        unsupported_claims == IF llm_context_json = <<>> THEN <<>>
                              ELSE llm_context_json[1].unsupported_claims
        rule1 == IF HighSeverityClaims(unsupported_claims) # {}
                 THEN <<"HIGH_SEVERITY">> ELSE <<>>
        threshold == IF data_quality = "none" THEN MAX_HALLUCINATION_RATE_NONE
                     ELSE MAX_HALLUCINATION_RATE
        rule2 == IF hallucination_rate > threshold
                 THEN <<"HALLUCINATION_RATE">> ELSE <<>>
        targets == WordTargetsGet(data_quality)
        actual_words == Len(new_content)
        rule3 == IF Truthy(new_content) THEN <<>> ELSE <<"EMPTY_CONTENT">>
        warn3 == IF ~Truthy(new_content) THEN <<>>
                 ELSE IF actual_words < MinWords(targets) THEN <<"WORDS_BELOW_MIN">>
                 ELSE IF actual_words > MaxWords(targets) THEN <<"WORDS_ABOVE_MAX">>
                 ELSE <<>>
        warn4 == IF Truthy(new_content)
                    /\ Range(new_content) \cap EMBELLISHMENT_BLOCKLIST # {}
                 THEN <<"EMBELLISHMENT">> ELSE <<>>
        rule5 == IF destination_id # 0 /\ destination_id \notin KNOWN_DESTINATIONS
                 THEN <<"UNKNOWN_DESTINATION">> ELSE <<>>
        rule6 == IF data_quality = "none"
                    /\ hallucination_rate > MAX_HALLUCINATION_RATE
                    /\ rule2 = <<>>
                 THEN <<"NO_SOURCE_DATA">> ELSE <<>>
        reasons == rule1 \o rule2 \o rule3 \o warn4 \o rule5 \o rule6
    IN [approved |-> reasons = <<>>,
        reasons |-> reasons,
        warnings |-> warn3 \o warn4]

validate_content(poi_id, new_content, llm_context_json, destination_id) ==
    LET data_quality == IF llm_context_json = <<>> THEN "none"
                        ELSE llm_context_json[1].data_quality
        hallucination_rate == NormalizedRate(llm_context_json)
        unsupported_claims == IF llm_context_json = <<>> THEN <<>>
                              ELSE llm_context_json[1].unsupported_claims
        rule1 == IF HighSeverityClaims(unsupported_claims) # {}
                 THEN <<"HIGH_SEVERITY">> ELSE <<>>
        threshold == IF data_quality = "none" THEN MAX_HALLUCINATION_RATE_NONE
                     ELSE MAX_HALLUCINATION_RATE
        rule2 == IF hallucination_rate > threshold
                 THEN <<"HALLUCINATION_RATE">> ELSE <<>>
        targets == WordTargetsGet(data_quality)
        actual_words == Len(new_content)
        rule3 == IF Truthy(new_content) THEN <<>> ELSE <<"EMPTY_CONTENT">>
        warn3 == IF ~Truthy(new_content) THEN <<>>
                 ELSE IF actual_words < MinWords(targets) THEN <<"WORDS_BELOW_MIN">>
                 ELSE IF actual_words > MaxWords(targets) THEN <<"WORDS_ABOVE_MAX">>
                 ELSE <<>>
        warn4 == IF Truthy(new_content)
                    /\ Range(new_content) \cap EMBELLISHMENT_BLOCKLIST # {}
                 THEN <<"EMBELLISHMENT">> ELSE <<>>
        rule5 == IF destination_id # 0 /\ destination_id \notin KNOWN_DESTINATIONS
                 THEN <<"UNKNOWN_DESTINATION">> ELSE <<>>
        rule6 == IF data_quality = "none"
                    /\ hallucination_rate > MAX_HALLUCINATION_RATE
                    /\ rule2 = <<>>
                 THEN <<"NO_SOURCE_DATA">> ELSE <<>>
        reasons == rule1 \o rule2 \o rule3 \o rule5 \o rule6
    IN [approved |-> reasons = <<>>,
        reasons |-> reasons,
        warnings |-> warn3 \o warn4]

-----------------------------------------------------------------------------
(* fase_r6b_source_rescrape.py: the quality level of an enhanced fact sheet. *)
(* fb is the Facebook scrape of the item (status, whether it has text,      *)
(* freshness_status), deep the deep re-scrape of its website (whether       *)
(* extracted_facts is not empty, freshness_status).                         *)

FreshnessStatuses == {"fresh", "stale", "unknown"}

has_fresh_social(fb) ==
    fb.status = "success" /\ fb.text /\ fb.freshness_status = "fresh"

has_structured_data(deep) == deep.extracted_facts

new_quality(old_quality, fb, deep) ==
    IF old_quality \in {"none", "minimal"} THEN
        LET social == IF has_fresh_social(fb) THEN "moderate" ELSE old_quality
        IN IF has_structured_data(deep)
           THEN (IF social = "moderate" THEN "rich" ELSE "moderate")
           ELSE social
    ELSE old_quality

-----------------------------------------------------------------------------
(* Values of the variables a specification does not use *)

Idle == <<>>

PipeIdle ==
    /\ POI = Idle /\ staging = Idle /\ history = Idle
    /\ last = Idle

PureIdle == vin = Idle /\ vout = Idle

BatchIdle ==
    /\ bpc = Idle /\ sheets = Idle /\ ckpt = Idle /\ resfile = Idle
    /\ mem = Idle /\ bstaging = Idle /\ calls = Idle

-----------------------------------------------------------------------------
(* The durable store: POI (production), poi_content_staging restricted to   *)
(* the R4 batch (one row per item, the key write_to_staging upserts on) and *)
(* poi_content_history (the audit trail).                                   *)

PoiIds == {1, 2}

\* operations run on the store in one behaviour
MaxOps == 4

EN_FIELD == "enriched_detail_description"

NoRow == [status |-> "norow"]

HasRow(p) == staging[p].status # "norow"

HistoryEntry(poi_id, field_name, old_value, new_value, change_source) ==
    [poi_id |-> poi_id, field_name |-> field_name, old_value |-> old_value,
     new_value |-> new_value, change_source |-> change_source]

\* What the operation that ran last did: the rows it selected (handled), the
\* statement that raised per row (fail), the items whose production content it
\* wrote and for which it inserted an audit entry, its return value (ok), the
\* store as it found it (prePOI, preStatus, preLen), and which operation ran
\* before it on which rows; n counts the operations run so far.
NoOp ==
    [op |-> "none", target |-> 0, handled |-> {},
     fail |-> [p \in PoiIds |-> "none"], wrote |-> {}, audited |-> {},
     prePOI |-> [p \in PoiIds |-> <<>>],
     preStatus |-> [p \in PoiIds |-> "norow"], preLen |-> 0, ok |-> FALSE,
     prevOp |-> "none", prevHandled |-> {}, n |-> 0]

OpRecord(op, target, handled, fail, wrote, audited, ok) ==
    [op |-> op, target |-> target, handled |-> handled, fail |-> fail,
     wrote |-> wrote, audited |-> audited,
     prePOI |-> POI, preStatus |-> [p \in PoiIds |-> staging[p].status],
     preLen |-> Len(history), ok |-> ok,
     prevOp |-> last.op, prevHandled |-> last.handled, n |-> last.n + 1]

NoFail == [p \in PoiIds |-> "none"]

\* ascending list of the members of a set of poi ids
RECURSIVE SortedSeq(_)
SortedSeq(S) ==
    IF S = {} THEN <<>>
    ELSE LET m == CHOOSE x \in S : \A y \in S : x <= y
         IN <<m>> \o SortedSeq(S \ {m})

-----------------------------------------------------------------------------
(* write_to_staging for one entry produced by process_single_poi *)

StagingRow(entry) ==
    [poi_id |-> entry.poi_id,
     destination_id |-> entry.destination_id,
     detail_description_en |-> entry.new_content,
     old_content_snapshot |-> entry.old_content,
     llm_context_json |-> entry.llm_context,
     status |-> entry.status,
     comparison_recommendation |-> entry.recommendation]

JsonResponse(verdict, rate, claims) ==
    [form |-> "json", verdict |-> Some(verdict), rate |-> Some(rate),
     unsupported |-> Some(Len(claims)), total_claims |-> Some(10),
     unsupported_claims |-> claims, mentions |-> {verdict}]

\* what the text service answered for an item: <<generated text, verification>>
ServiceAnswers ==
    {<<<<"new">>, JsonResponse("PASS", 0, <<>>)>>,
     <<<<"new">>, JsonResponse("REVIEW", 100, <<"LOW">>)>>,
     <<<<"new">>, JsonResponse("FAIL", 300, <<"HIGH">>)>>,
     <<<<"old">>, JsonResponse("PASS", 0, <<>>)>>,
     <<ErrorText, JsonResponse("PASS", 0, <<>>)>>}

FactSheet(p) == [poi_id |-> p, destination_id |-> p, data_quality |-> "none"]

\* get_current_content: NULL is read as ''
CurrentContent(p) == IF POI[p] = Null THEN <<>> ELSE POI[p]

write_to_staging(p, answer) ==
    LET entry == process_single_poi(FactSheet(p), CurrentContent(p),
                                    answer[1], answer[1], answer[2])
    IN /\ staging' = [staging EXCEPT ![p] = StagingRow(entry)]
       /\ last' = OpRecord("write_to_staging", p, {p}, NoFail, {}, {}, TRUE)
       /\ UNCHANGED <<POI, history>>

-----------------------------------------------------------------------------
(* batch_approve (execute mode) *)

BatchApproveRows ==
    {p \in PoiIds : /\ staging[p].status \in {"pending", "review_required"}
                    /\ staging[p].comparison_recommendation = "USE_NEW"}

batch_approve ==
    /\ BatchApproveRows # {}
    /\ staging' =
         [p \in PoiIds |->
            IF p \in BatchApproveRows
               /\ validate_content(staging[p].poi_id,
                                   staging[p].detail_description_en,
                                   staging[p].llm_context_json,
                                   staging[p].destination_id).approved
            THEN [staging[p] EXCEPT !.status = "approved"]
            ELSE staging[p]]
    /\ last' = OpRecord("batch_approve", 0, BatchApproveRows, NoFail, {}, {}, TRUE)
    /\ UNCHANGED <<POI, history>>

-----------------------------------------------------------------------------
(* promote_to_production (execute mode).  Every statement of the loop body  *)
(* runs inside try/except: a statement that raises ends the handling of     *)
(* that row, the loop goes on and the final commit keeps what was executed. *)
(* mode names the statement that raises for a row, if any:                  *)
(*   "select" the SELECT on POI, "prod" the UPDATE of POI,                  *)
(*   "audit" the INSERT into poi_content_history, "status" the UPDATE of    *)
(*   the staging row.                                                       *)

FailModes == {"none", "select", "prod", "audit", "status"}

\* variant: the selection does not filter out the rows already applied
ApprovedRows_AnyPromotable ==
    {p \in PoiIds : staging[p].status \in {"approved", "applied"}}

ApprovedRows == {p \in PoiIds : staging[p].status = "approved"}

Db0 == [POI |-> POI, staging |-> staging, history |-> history,
        wrote |-> {}, audited |-> {}]

\* variant: no comparison of the candidate with the production content
PromoteRow_NoSkip(db, p, mode) ==
    LET row == db.staging[p]
        old_content == db.POI[p]
        new_content == row.detail_description_en
        applied == [db.staging EXCEPT ![p].status = "applied"]
    IN
    IF mode \in {"select", "prod"} THEN db
    ELSE LET db1 == [db EXCEPT !.POI[p] = new_content, !.wrote = @ \cup {p}] IN
         IF mode = "audit" THEN db1
         ELSE LET db2 == [db1 EXCEPT
                            !.history = Append(@, HistoryEntry(p, EN_FIELD,
                                old_content, new_content, "fase_r4_staging")),
                            !.audited = @ \cup {p}] IN
              IF mode = "status" THEN db2
              ELSE [db2 EXCEPT !.staging = applied]

PromoteRow(db, p, mode) ==
    LET row == db.staging[p]
        old_content == db.POI[p]
        new_content == row.detail_description_en
        applied == [db.staging EXCEPT ![p].status = "applied"]
    IN
    IF mode = "select" THEN db
    ELSE IF old_content = new_content THEN
        IF mode = "status" THEN db
        ELSE [db EXCEPT !.staging = applied]
    ELSE IF mode = "prod" THEN db
    ELSE LET db1 == [db EXCEPT !.POI[p] = new_content, !.wrote = @ \cup {p}] IN
         IF mode = "audit" THEN db1
         ELSE LET db2 == [db1 EXCEPT
                            !.history = Append(@, HistoryEntry(p, EN_FIELD,
                                old_content, new_content, "fase_r4_staging")),
                            !.audited = @ \cup {p}] IN
              IF mode = "status" THEN db2
              ELSE [db2 EXCEPT !.staging = applied]

RECURSIVE PromoteRows(_, _, _)
PromoteRows(db, rows, fail) ==
    IF rows = <<>> THEN db
    ELSE PromoteRows(PromoteRow(db, Head(rows), fail[Head(rows)]), Tail(rows), fail)

\* the statements a row's handling executes, hence the ones that can raise
Raisable(p) ==
    IF POI[p] = staging[p].detail_description_en
    THEN {"none", "select", "status"} ELSE FailModes

\* the orders in which fetchall can return a set of rows (the SELECT has no
\* ORDER BY)
FetchOrders(S) ==
    {rows \in [1..Cardinality(S) -> S] :
        \A i, j \in 1..Cardinality(S) : rows[i] = rows[j] => i = j}

promote_to_production(fail, rows) ==
    /\ \A p \in PoiIds :
          fail[p] \in (IF p \in ApprovedRows THEN Raisable(p) ELSE {"none"})
    /\ LET db == PromoteRows(Db0, rows, fail) IN
       /\ POI' = db.POI
       /\ staging' = db.staging
       /\ history' = db.history
       /\ last' = OpRecord("promote", 0, ApprovedRows, fail, db.wrote,
                           db.audited, TRUE)

-----------------------------------------------------------------------------
(* rollback_poi (execute mode) *)

\* indices of the audit entries of the item's content field
ContentEntries(poi_id) ==
    {i \in 1..Len(history) : /\ history[i].poi_id = poi_id
                             /\ history[i].field_name = EN_FIELD}

\* variant: ORDER BY created_at ASC LIMIT 1
LatestEntry_Oldest(poi_id) ==
    CHOOSE i \in ContentEntries(poi_id) : \A j \in ContentEntries(poi_id) : i <= j

\* ORDER BY created_at DESC LIMIT 1
LatestEntry(poi_id) ==
    CHOOSE i \in ContentEntries(poi_id) : \A j \in ContentEntries(poi_id) : j <= i

\* variant: without an audit entry and without a snapshot, the production
\* content itself is taken as the value to restore
RollbackData_CurrentContent(poi_id) ==
    IF ContentEntries(poi_id) # {}
    THEN <<TRUE, history[LatestEntry(poi_id)].old_value>>
    ELSE IF HasRow(poi_id) /\ Truthy(staging[poi_id].old_content_snapshot)
         THEN <<TRUE, staging[poi_id].old_content_snapshot>>
         ELSE <<TRUE, POI[poi_id]>>

\* <<found, old_content>>: the value rollback_poi would restore
RollbackData(poi_id) ==
    IF ContentEntries(poi_id) # {}
    THEN <<TRUE, history[LatestEntry(poi_id)].old_value>>
    ELSE IF HasRow(poi_id) /\ Truthy(staging[poi_id].old_content_snapshot)
         THEN <<TRUE, staging[poi_id].old_content_snapshot>>
         ELSE <<FALSE, <<>>>>

\* variant: the applied staging rows of the item are left as they are
rollback_poi_KeepsApplied(poi_id) ==
    LET data == RollbackData(poi_id)
        old_content == data[2]
    IN
    IF ~data[1] \/ ~Truthy(old_content) THEN
        /\ last' = OpRecord("rollback", poi_id, {poi_id}, NoFail, {}, {}, FALSE)
        /\ UNCHANGED <<POI, staging, history>>
    ELSE
        /\ POI' = [POI EXCEPT ![poi_id] = old_content]
        /\ history' = Append(history, HistoryEntry(poi_id, EN_FIELD, POI[poi_id],
                                                   old_content, "rollback"))
        /\ staging' = staging
        /\ last' = OpRecord("rollback", poi_id, {poi_id}, NoFail, {poi_id},
                            {poi_id}, TRUE)

rollback_poi(poi_id) ==
    LET data == RollbackData(poi_id)
        old_content == data[2]
    IN
    IF ~data[1] \/ ~Truthy(old_content) THEN
        /\ last' = OpRecord("rollback", poi_id, {poi_id}, NoFail, {}, {}, FALSE)
        /\ UNCHANGED <<POI, staging, history>>
    ELSE
        /\ POI' = [POI EXCEPT ![poi_id] = old_content]
        /\ history' = Append(history, HistoryEntry(poi_id, EN_FIELD, POI[poi_id],
                                                   old_content, "rollback"))
        /\ staging' = [staging EXCEPT ![poi_id] =
                          IF @.status = "applied"
                          THEN [@ EXCEPT !.status = "rejected"] ELSE @]
        /\ last' = OpRecord("rollback", poi_id, {poi_id}, NoFail, {poi_id},
                            {poi_id}, TRUE)

-----------------------------------------------------------------------------
(* markdown_fix_post_r6b: STEP 5 rewrites the content and commits, STEP 6   *)
(* then writes one audit entry per fixed field.                             *)

MdLinks == {"[old](u)"}

\* md_link_re.search(text)
HasMdLink(text) == text # Null /\ Range(text) \cap MdLinks # {}

\* md_link_re.sub(r'\1', text) on the link tokens of the model
MdSub(text) == [i \in DOMAIN text |-> IF text[i] = "[old](u)" THEN "old" ELSE text[i]]

MdAffected == {p \in PoiIds : HasMdLink(POI[p])}

MdAuditEntries(pois) ==
    [i \in 1..Len(pois) |->
        HistoryEntry(pois[i], EN_FIELD, Null, Null, "markdown_fix_post_r6b")]

markdown_fix ==
    /\ MdAffected # {}
    /\ POI' = [p \in PoiIds |-> IF p \in MdAffected THEN MdSub(POI[p]) ELSE POI[p]]
    /\ history' = history \o MdAuditEntries(SortedSeq(MdAffected))
    /\ last' = OpRecord("markdown_fix", 0, MdAffected, NoFail, MdAffected,
                        MdAffected, TRUE)
    /\ UNCHANGED staging

-----------------------------------------------------------------------------
(* fase_r6_process_review.py: process_reviews (execute mode) for a review   *)
(* sheet; the sheet lists rows that were pending or review_required.  The   *)
(* statements of a row run inside try/except without rollback, and the      *)
(* final commit keeps what was executed.                                    *)

Beoordelingen == {"GOED", "AANPASSEN", "AFKEUREN"}

\* the text the reviewer supplies with AANPASSEN
EditedText == <<"edited">>

ReviewableRows ==
    {p \in PoiIds : staging[p].status \in {"pending", "review_required"}}

ReviewRow(db, p, beoordeling, mode) ==
    LET old_content == db.POI[p]
        new_content == IF beoordeling = "GOED" THEN db.staging[p].detail_description_en
                       ELSE EditedText
        source == IF beoordeling = "GOED" THEN "frank_review_r6"
                  ELSE "frank_manual_edit_r6"
    IN
    IF beoordeling = "AFKEUREN" THEN
        IF mode = "status" THEN db
        ELSE [db EXCEPT !.staging[p].status = "rejected"]
    ELSE IF mode = "select" \/ ~Truthy(new_content) \/ mode = "prod" THEN db
    ELSE LET db1 == [db EXCEPT !.POI[p] = new_content, !.wrote = @ \cup {p}] IN
         IF mode = "status" THEN db1
         ELSE LET db2 == [db1 EXCEPT !.staging[p].status = "applied",
                                     !.staging[p].detail_description_en = new_content]
              IN IF mode = "audit" THEN db2
                 ELSE [db2 EXCEPT
                         !.history = Append(@, HistoryEntry(p, EN_FIELD, old_content,
                                                            new_content, source)),
                         !.audited = @ \cup {p}]

RECURSIVE ReviewRows(_, _, _, _)
ReviewRows(db, rows, sheet, fail) ==
    IF rows = <<>> THEN db
    ELSE ReviewRows(ReviewRow(db, Head(rows), sheet[Head(rows)], fail[Head(rows)]),
                    Tail(rows), sheet, fail)

\* sheet: the beoordeling per listed row; fail: the statement raising per row
process_reviews(reviewed, sheet, fail) ==
    /\ reviewed # {}
    /\ reviewed \subseteq ReviewableRows
    /\ \A p \in PoiIds :
          fail[p] \in (IF p \notin reviewed THEN {"none"}
                       ELSE IF sheet[p] = "AFKEUREN" THEN {"none", "status"}
                       ELSE FailModes)
    /\ LET db == ReviewRows(Db0, SortedSeq(reviewed), sheet, fail) IN
       /\ POI' = db.POI
       /\ staging' = db.staging
       /\ history' = db.history
       /\ last' = OpRecord("process_reviews", 0, reviewed, fail, db.wrote,
                           db.audited, TRUE)

-----------------------------------------------------------------------------
(* fase_r6_promote_remaining.py: main (execute mode).  The loop has no      *)
(* try/except: a statement that raises ends the script before any commit,   *)
(* which leaves the store as it was.                                        *)

HALL_THRESHOLD == 250

\* the stored llm_context_json values without JSON data: SQL NULL and a
\* string that json.loads rejects
NoJson == {<<[raw |-> "NULL"]>>, <<[raw |-> "not json"]>>}

\* variant: a context without a numeric rate reads as rate 0
get_hallucination_rate_MissingZero(llm_context_json) ==
    IF llm_context_json \in NoJson THEN RATE_ONE
    ELSE IF llm_context_json = <<>> THEN RATE_ONE
    ELSE Get(llm_context_json[1].hallucination_rate, 0)

\* get_hallucination_rate: no data, a parse error, a missing rate read as 1.0
get_hallucination_rate(llm_context_json) ==
    IF llm_context_json \in NoJson THEN RATE_ONE
    ELSE IF llm_context_json = <<>> THEN RATE_ONE
    ELSE Get(llm_context_json[1].hallucination_rate, RATE_ONE)

\* has_high_severity: no data (NULL) or a parse error count as HIGH; a
\* context without claims ('{}', what write_to_staging stores for an item
\* without llm_context) has no HIGH claim
has_high_severity(llm_context_json) ==
    IF llm_context_json \in NoJson THEN TRUE
    ELSE IF llm_context_json = <<>> THEN FALSE
    ELSE "HIGH" \in Range(llm_context_json[1].unsupported_claims)

PendingRows(frank_ids) ==
    {p \in PoiIds : staging[p].status = "pending" /\ p \notin frank_ids}

RemainingRow(db, p) ==
    LET row == db.staging[p]
        old_content == IF POI[p] = Null THEN <<>> ELSE POI[p]
    IN
    IF get_hallucination_rate(row.llm_context_json) <= HALL_THRESHOLD
       /\ ~has_high_severity(row.llm_context_json)
    THEN IF ~Truthy(row.detail_description_en) THEN db
         ELSE [db EXCEPT !.POI[p] = row.detail_description_en,
                         !.staging[p].status = "applied",
                         !.history = Append(@, HistoryEntry(p, EN_FIELD, old_content,
                                        row.detail_description_en, "r6_threshold_promote")),
                         !.wrote = @ \cup {p}, !.audited = @ \cup {p}]
    ELSE [db EXCEPT !.staging[p].status = "review_required"]

RECURSIVE RemainingRows(_, _)
RemainingRows(db, rows) ==
    IF rows = <<>> THEN db
    ELSE RemainingRows(RemainingRow(db, Head(rows)), Tail(rows))

promote_remaining(frank_ids) ==
    /\ PendingRows(frank_ids) # {}
    /\ LET db == RemainingRows(Db0, SortedSeq(PendingRows(frank_ids))) IN
       /\ POI' = db.POI
       /\ staging' = db.staging
       /\ history' = db.history
       /\ last' = OpRecord("promote_remaining", 0, PendingRows(frank_ids), NoFail,
                           db.wrote, db.audited, TRUE)

-----------------------------------------------------------------------------
(* fase_r6_generic_descriptions.py: main (execute mode).  mode per target:  *)
(* "nodesc" call_mistral returned None, otherwise the statement that raises *)
(* inside the try/except (no rollback; the commit keeps what was executed). *)

GenericText == <<"generic">>

GenericModes == {"none", "nodesc", "prod", "status", "audit"}

\* fetch_targets
GenericTargets ==
    {p \in PoiIds : staging[p].status \in {"review_required", "rejected"}}

GenericRow(db, p, mode) ==
    LET current_content == IF POI[p] = Null THEN <<>> ELSE POI[p] IN
    IF mode \in {"nodesc", "prod"} THEN db
    ELSE LET db1 == [db EXCEPT !.POI[p] = GenericText, !.wrote = @ \cup {p}] IN
         IF mode = "status" THEN db1
         ELSE LET db2 == [db1 EXCEPT !.staging[p].status = "applied",
                                     !.staging[p].detail_description_en = GenericText]
              IN IF mode = "audit" THEN db2
                 ELSE [db2 EXCEPT
                         !.history = Append(@, HistoryEntry(p, EN_FIELD, current_content,
                                                            GenericText, "generic_safe_r6")),
                         !.audited = @ \cup {p}]

RECURSIVE GenericRows(_, _, _)
GenericRows(db, rows, fail) ==
    IF rows = <<>> THEN db
    ELSE GenericRows(GenericRow(db, Head(rows), fail[Head(rows)]), Tail(rows), fail)

generic_descriptions(fail) ==
    /\ GenericTargets # {}
    /\ \A p \in PoiIds : p \notin GenericTargets => fail[p] = "none"
    /\ LET db == GenericRows(Db0, SortedSeq(GenericTargets), fail) IN
       /\ POI' = db.POI
       /\ staging' = db.staging
       /\ history' = db.history
       /\ last' = OpRecord("generic_descriptions", 0, GenericTargets, fail,
                           db.wrote, db.audited, TRUE)

-----------------------------------------------------------------------------
(* The store after the initial load, and the operations on it *)

InitialTexts == {<<>>, <<"old">>, <<"[old](u)">>}

Init ==
    /\ POI \in [PoiIds -> InitialTexts]
    /\ staging = [p \in PoiIds |-> NoRow]
    /\ history = <<>>
    /\ last = NoOp
    /\ PureIdle
    /\ BatchIdle

MoreOps == last.n < MaxOps

WriteToStaging ==
    /\ MoreOps
    /\ \E p \in PoiIds, answer \in ServiceAnswers :
          write_to_staging(p, answer) /\ UNCHANGED <<pureVars, batchVars>>

BatchApprove == MoreOps /\ batch_approve /\ UNCHANGED <<pureVars, batchVars>>

Promote ==
    /\ MoreOps
    /\ \E fail \in [PoiIds -> FailModes], rows \in FetchOrders(ApprovedRows) :
          promote_to_production(fail, rows) /\ UNCHANGED <<pureVars, batchVars>>

Rollback ==
    /\ MoreOps
    /\ \E p \in PoiIds : rollback_poi(p) /\ UNCHANGED <<pureVars, batchVars>>

MarkdownFix == MoreOps /\ markdown_fix /\ UNCHANGED <<pureVars, batchVars>>

Next == WriteToStaging \/ BatchApprove \/ Promote \/ Rollback \/ MarkdownFix

Spec == Init /\ [][Next]_vars

-----------------------------------------------------------------------------
(* The store under all the passes of the pipeline: the R4/R5 operations and *)
(* the R6 passes (human review, threshold promotion, generic regeneration). *)

\* a generated text that holds a markdown link
LinkAnswer == <<<<"[old](u)">>, JsonResponse("PASS", 0, <<>>)>>

RegenerateWithLink ==
    /\ MoreOps
    /\ \E p \in PoiIds :
          write_to_staging(p, LinkAnswer) /\ UNCHANGED <<pureVars, batchVars>>

ProcessReviews ==
    /\ MoreOps
    /\ \E reviewed \in SUBSET PoiIds, sheet \in [PoiIds -> Beoordelingen],
          fail \in [PoiIds -> {"none", "status", "audit"}] :
          /\ \A p \in PoiIds : p \notin reviewed => sheet[p] = "GOED"
          /\ process_reviews(reviewed, sheet, fail)
          /\ UNCHANGED <<pureVars, batchVars>>

PromoteRemaining ==
    /\ MoreOps
    /\ \E frank_ids \in SUBSET PoiIds :
          promote_remaining(frank_ids) /\ UNCHANGED <<pureVars, batchVars>>

GenericDescriptions ==
    /\ MoreOps
    /\ \E fail \in [PoiIds -> GenericModes] :
          generic_descriptions(fail) /\ UNCHANGED <<pureVars, batchVars>>

FullNext ==
    \/ WriteToStaging \/ RegenerateWithLink \/ BatchApprove \/ Promote
    \/ Rollback \/ MarkdownFix
    \/ ProcessReviews \/ PromoteRemaining \/ GenericDescriptions

\* the store after the initial load; the second item has a plain description
FullInit ==
    /\ Init
    /\ POI[2] = <<"old">>

FullSpec == FullInit /\ [][FullNext]_vars

-----------------------------------------------------------------------------
(* Re-runs of the R4 pipeline: main with --clear-staging calls              *)
(* clear_staging_for_r4 before the run; every row of the R4/R5 operations   *)
(* has content_source 'fase_r4_regeneration'.                               *)

clear_staging_for_r4 ==
    /\ staging' = [p \in PoiIds |-> NoRow]
    /\ last' = OpRecord("clear_staging", 0, {p \in PoiIds : HasRow(p)},
                        NoFail, {}, {}, TRUE)
    /\ UNCHANGED <<POI, history>>

ClearStaging ==
    MoreOps /\ clear_staging_for_r4 /\ UNCHANGED <<pureVars, batchVars>>

RerunNext == WriteToStaging \/ ClearStaging \/ BatchApprove \/ Promote

RerunSpec == Init /\ [][RerunNext]_vars

-----------------------------------------------------------------------------
(* fase_r5_promote_staging.py in dry-run mode (dry_run = not args.execute,  *)
(* the default): each function returns at its 'if dry_run' test.            *)

batch_approve_dry_run ==
    /\ BatchApproveRows # {}
    /\ last' = OpRecord("batch_approve_dry_run", 0, BatchApproveRows, NoFail,
                        {}, {}, TRUE)
    /\ UNCHANGED <<POI, staging, history>>

promote_to_production_dry_run ==
    /\ ApprovedRows # {}
    /\ last' = OpRecord("promote_dry_run", 0, ApprovedRows, NoFail, {}, {}, TRUE)
    /\ UNCHANGED <<POI, staging, history>>

\* variant: the dry-run test comes after the UPDATE of POI
rollback_poi_dry_run_AfterUpdate(poi_id) ==
    LET data == RollbackData(poi_id)
        old_content == data[2]
    IN
    IF ~data[1] \/ ~Truthy(old_content) THEN
        /\ last' = OpRecord("rollback_dry_run", poi_id, {poi_id}, NoFail, {}, {}, FALSE)
        /\ UNCHANGED <<POI, staging, history>>
    ELSE
        /\ POI' = [POI EXCEPT ![poi_id] = old_content]
        /\ last' = OpRecord("rollback_dry_run", poi_id, {poi_id}, NoFail, {}, {}, TRUE)
        /\ UNCHANGED <<staging, history>>

rollback_poi_dry_run(poi_id) ==
    LET data == RollbackData(poi_id)
        old_content == data[2]
    IN
    IF ~data[1] \/ ~Truthy(old_content) THEN
        /\ last' = OpRecord("rollback_dry_run", poi_id, {poi_id}, NoFail, {}, {}, FALSE)
        /\ UNCHANGED <<POI, staging, history>>
    ELSE
        /\ last' = OpRecord("rollback_dry_run", poi_id, {poi_id}, NoFail, {}, {}, TRUE)
        /\ UNCHANGED <<POI, staging, history>>

\* promote_to_production (execute mode) with no statement raising
PromoteAll ==
    /\ MoreOps
    /\ \E rows \in FetchOrders(ApprovedRows) :
          promote_to_production(NoFail, rows) /\ UNCHANGED <<pureVars, batchVars>>

BatchApproveDryRun ==
    MoreOps /\ batch_approve_dry_run /\ UNCHANGED <<pureVars, batchVars>>

PromoteDryRun ==
    MoreOps /\ promote_to_production_dry_run /\ UNCHANGED <<pureVars, batchVars>>

RollbackDryRun ==
    /\ MoreOps
    /\ \E p \in PoiIds : rollback_poi_dry_run(p) /\ UNCHANGED <<pureVars, batchVars>>

DryRunNext ==
    \/ WriteToStaging \/ BatchApprove \/ PromoteAll \/ Rollback
    \/ BatchApproveDryRun \/ PromoteDryRun \/ RollbackDryRun

DryRunSpec == Init /\ [][DryRunNext]_vars

-----------------------------------------------------------------------------
(* fase_r6_promote_remaining.py run on a staging table whose rows of the    *)
(* batch are pending or approved, with a candidate that may be empty and a  *)
(* context that may be NULL, unparseable, '{}', or a JSON object with or    *)
(* without a rate.                                                          *)

ThresholdInit ==
    /\ POI = [p \in PoiIds |-> <<"old">>]
    /\ staging \in
         [PoiIds ->
            {r \in [poi_id : PoiIds, destination_id : {1},
                    detail_description_en : {<<"new">>, <<>>},
                    old_content_snapshot : {<<"old">>},
                    llm_context_json :
                        NoJson \cup {<<>>} \cup
                        {<<c>> : c \in [data_quality : {"none"},
                                        word_count : {1},
                                        verification_verdict : {"REVIEW"},
                                        hallucination_rate :
                                            {<<>>, <<0 - 1000>>, <<100>>, <<250>>,
                                             <<260>>},
                                        unsupported_count : {0},
                                        total_claims : {0},
                                        unsupported_claims :
                                            {<<>>, <<"LOW">>, <<"LOW", "HIGH">>}]},
                    status : {"pending", "approved"},
                    comparison_recommendation : {"USE_NEW"}] : TRUE}]
    /\ \A p \in PoiIds : staging[p].poi_id = p
    /\ history = <<>>
    /\ last = NoOp
    /\ PureIdle
    /\ BatchIdle

ThresholdSpec == ThresholdInit /\ [][PromoteRemaining]_vars

-----------------------------------------------------------------------------
(* Harness for the pure functions: an input is drawn, the function applied. *)

Severities == {"HIGH", "MEDIUM", "LOW"}

ClaimLists ==
    {<<>>, <<"LOW">>, <<"HIGH">>, <<"MEDIUM", "HIGH">>,
     <<"LOW", "LOW", "LOW", "LOW", "LOW", "HIGH">>}

ResponseRates == {<<>>, <<0>>, <<100>>, <<200>>, <<210>>, <<300>>, <<1000>>}

ResponseVerdicts == {<<>>, <<"PASS">>, <<"REVIEW">>, <<"FAIL">>, <<"UNSURE">>}

ResponseCounts == {<<<<>>, <<>>>>, <<<<0>>, <<0>>>>, <<<<3>>, <<10>>>>}

\* whatever names a verdict in a "verdict" field also mentions the word
Responses ==
    {r \in [form : {"error", "json", "badjson", "nobrace"},
            verdict : ResponseVerdicts,
            rate : ResponseRates,
            counts : ResponseCounts,
            unsupported_claims : ClaimLists,
            mentions : SUBSET Range(VerdictWords)] :
        /\ (r.verdict # <<>> /\ r.verdict[1] \in Range(VerdictWords))
              => r.verdict[1] \in r.mentions
        /\ r.form = "nobrace" =>
              (r.verdict = <<>> /\ r.rate = <<>> /\ r.counts[1] = <<>>
               /\ r.unsupported_claims = <<>>)
        /\ r.form = "error" =>
              (r.verdict = <<>> /\ r.rate = <<>> /\ r.counts[1] = <<>>
               /\ r.unsupported_claims = <<>> /\ r.mentions = {})
        /\ r.form = "json" =>
              r.mentions = (IF r.verdict # <<>> THEN {r.verdict[1]} ELSE {})
                              \cap Range(VerdictWords)}

AsResponse(r) ==
    [form |-> r.form, verdict |-> r.verdict, rate |-> r.rate,
     unsupported |-> r.counts[1], total_claims |-> r.counts[2],
     unsupported_claims |-> r.unsupported_claims, mentions |-> r.mentions]

HarnessSheet == [poi_id |-> 1, destination_id |-> 1, data_quality |-> "none"]

\* generated texts around the word targets of the tiers 'none' and 'rich'
WordCountTexts ==
    {Words(n) : n \in {29, 30, 60, 61, 109, 110, 140, 141}} \cup {ErrorText}

WordCountResponses ==
    {JsonResponse("PASS", 0, <<>>), JsonResponse("FAIL", 300, <<"HIGH">>)}

VerifyInputs ==
    {[fn |-> "process", response |-> AsResponse(r), gen1 |-> g, gen2 |-> g,
      data_quality |-> "none"] :
        r \in Responses, g \in {Words(40)}}
    \cup {[fn |-> "process", response |-> AsResponse(r), gen1 |-> ErrorText,
           gen2 |-> ErrorText, data_quality |-> "none"] :
        r \in {x \in Responses : x.form = "error"}}
    \cup [fn : {"process"}, response : WordCountResponses,
          gen1 : WordCountTexts, gen2 : WordCountTexts,
          data_quality : {"none", "rich", "unknown"}]

GateRates ==
    {<<>>} \cup {<<x>> : x \in {0 - 1000, 0, 150, 200, 210, 250, 300, 310,
                               1000, 1500, 25000, 30000}}

GateContexts ==
    {<<>>} \cup
    {<<c>> : c \in [data_quality : Tiers \cup {"unknown"},
                    word_count : {40},
                    verification_verdict : {"PASS", "FAIL", "ERROR"},
                    hallucination_rate : GateRates,
                    unsupported_count : {0},
                    total_claims : {0},
                    unsupported_claims : ClaimLists]}

GateTexts == {<<>>, Null, Words(3), Words(40), Words(80), Words(39) \o <<"stunning">>}

GateInputs ==
    [fn : {"validate"}, new_content : GateTexts, llm_context_json : GateContexts,
     destination_id : {0, 1, 2, 99}]

EnhanceInputs ==
    [fn : {"enhance"}, old_quality : Tiers,
     fb : [status : {"success", "login_required", "none"}, text : BOOLEAN,
           freshness_status : FreshnessStatuses],
     deep : [extracted_facts : BOOLEAN, freshness_status : FreshnessStatuses]]

\* status 0 stands for no HTTP status
Outcomes ==
    {[kind |-> "ok", code |-> 0, body_ok |-> TRUE],
     [kind |-> "exc", code |-> 0, body_ok |-> TRUE]}
    \cup [kind : {"http"}, code : {404, 429, 503}, body_ok : BOOLEAN]

CallInputs == [fn : {"call"}, outcomes : [1..MAX_RETRIES -> Outcomes]]

PureInit ==
    /\ vin \in VerifyInputs \cup GateInputs \cup EnhanceInputs \cup CallInputs
    /\ vout = <<>>
    /\ PipeIdle
    /\ BatchIdle

Verify ==
    /\ vin.fn = "process"
    /\ vout = <<>>
    /\ vout' = Some(process_single_poi(
                        [HarnessSheet EXCEPT !.data_quality = vin.data_quality],
                        <<"old">>, vin.gen1, vin.gen2, vin.response))
    /\ UNCHANGED <<vin, pipeVars, batchVars>>

Gate ==
    /\ vin.fn = "validate"
    /\ vout = <<>>
    /\ vout' = Some(validate_content(1, vin.new_content, vin.llm_context_json,
                                     vin.destination_id))
    /\ UNCHANGED <<vin, pipeVars, batchVars>>

Enhance ==
    /\ vin.fn = "enhance"
    /\ vout = <<>>
    /\ vout' = Some(new_quality(vin.old_quality, vin.fb, vin.deep))
    /\ UNCHANGED <<vin, pipeVars, batchVars>>

Call ==
    /\ vin.fn = "call"
    /\ vout = <<>>
    /\ vout' = Some(call_mistral(vin.outcomes))
    /\ UNCHANGED <<vin, pipeVars, batchVars>>

PureNext == Verify \/ Gate \/ Enhance \/ Call

PureSpec == PureInit /\ [][PureNext]_vars

-----------------------------------------------------------------------------
(* The batch runner: main and run_generation_and_verification, with the     *)
(* checkpoint file, the results file and the staging rows of the run.  The  *)
(* process can be killed between two iterations of the loop.                *)

\* number of fact sheets in the fact sheets file
MaxItems == 5

\* BATCH_SIZE of the source (50), scaled to the size of the runs explored
BATCH_SIZE == 2

\* times the process is killed in one behaviour
MaxCrashes == 1

NoFile == <<>>

\* the text service's answer to an item is a function of the item
BatchAnswers ==
    {<<<<"new">>, JsonResponse("PASS", 0, <<>>)>>,
     <<<<"new">>, JsonResponse("FAIL", 300, <<"HIGH">>)>>,
     <<ErrorText, JsonResponse("PASS", 0, <<>>)>>}

BatchSheet(i, answer) ==
    [poi_id |-> i, destination_id |-> 1, data_quality |-> "none", answer |-> answer]

BatchResult(fs) ==
    process_single_poi(fs, <<"old">>, fs.answer[1], fs.answer[1], fs.answer[2])

RECURSIVE CountIf(_, _, _)
CountIf(results, field, value) ==
    IF results = <<>> THEN 0
    ELSE (IF Head(results)[field] = value THEN 1 ELSE 0)
         + CountIf(Tail(results), field, value)

compute_stats(results) ==
    IF results = <<>> THEN <<>>
    ELSE <<[total |-> Len(results),
            verdicts |-> [v \in {"PASS", "REVIEW", "FAIL", "ERROR"} |->
                             CountIf(results, "verdict", v)],
            errors |-> CountIf(results, "error", TRUE)]>>

\* load_checkpoint, or the dict main builds without --resume
load_checkpoint(resume) ==
    IF resume /\ ckpt # NoFile THEN ckpt[1]
    ELSE [completed_ids |-> {}, phase |-> "generation", stats |-> <<>>]

\* the state save_checkpoint is called with
CheckpointState(completed_ids, phase, results) ==
    <<[completed_ids |-> completed_ids, phase |-> phase,
       stats |-> compute_stats(results)]>>

\* write_to_staging(entries): one upsert per entry, then one commit; the
\* upsert of an entry in failed raises, which is logged and skipped
RECURSIVE StageEntries(_, _, _)
StageEntries(rows, entries, failed) ==
    IF entries = <<>> THEN rows
    ELSE StageEntries(IF Head(entries).poi_id \in failed THEN rows
                      ELSE [rows EXCEPT ![Head(entries).poi_id] =
                                            StagingRow(Head(entries))],
                      Tail(entries), failed)

RECURSIVE Remaining(_, _)
Remaining(fact_sheets, completed_ids) ==
    IF fact_sheets = <<>> THEN <<>>
    ELSE (IF Head(fact_sheets).poi_id \in completed_ids THEN <<>>
          ELSE <<Head(fact_sheets)>>)
         \o Remaining(Tail(fact_sheets), completed_ids)

\* main up to the loop of run_generation_and_verification; the checkpoint
\* never has a 'results' key, so results starts empty
StartRun(resume) ==
    /\ bpc.pc \in {"idle", "crashed"}
    /\ LET checkpoint == load_checkpoint(resume) IN
       mem' = [completed_ids |-> checkpoint.completed_ids,
               results |-> <<>>,
               remaining |-> Remaining(sheets, checkpoint.completed_ids),
               batch_for_staging |-> <<>>]
    /\ bpc' = [bpc EXCEPT !.pc = "running",
                          !.resumed = IF bpc.pc = "crashed" THEN resume ELSE @]
    /\ UNCHANGED <<sheets, ckpt, resfile, bstaging, calls>>

\* one iteration of the loop; failed: the entries whose upsert raises when
\* the iteration writes a batch to staging
ProcessItem(failed) ==
    /\ bpc.pc = "running"
    /\ mem.remaining # <<>>
    /\ failed \subseteq
          IF Len(mem.batch_for_staging) + 1 >= BATCH_SIZE
          THEN {mem.batch_for_staging[k].poi_id : k \in 1..Len(mem.batch_for_staging)}
                  \cup {Head(mem.remaining).poi_id}
          ELSE {}
    /\ LET fs == Head(mem.remaining)
           result == BatchResult(fs)
           results == Append(mem.results, result)
           completed_ids == mem.completed_ids \cup {fs.poi_id}
           batch == Append(mem.batch_for_staging, result)
           full == Len(batch) >= BATCH_SIZE
       IN /\ calls' = [calls EXCEPT ![fs.poi_id] = @ + 1]
          /\ bstaging' = IF full THEN StageEntries(bstaging, batch, failed) ELSE bstaging
          /\ ckpt' = IF full THEN CheckpointState(completed_ids, "generation", results)
                     ELSE ckpt
          /\ mem' = [completed_ids |-> completed_ids, results |-> results,
                     remaining |-> Tail(mem.remaining),
                     batch_for_staging |-> IF full THEN <<>> ELSE batch]
          /\ bpc' = [bpc EXCEPT !.checkpointed = full]
    /\ UNCHANGED <<sheets, resfile>>

\* after the loop: final staging write, final checkpoint, results file
FinishRun(failed) ==
    /\ bpc.pc = "running"
    /\ mem.remaining = <<>>
    /\ failed \subseteq
          {mem.batch_for_staging[k].poi_id : k \in 1..Len(mem.batch_for_staging)}
    /\ bstaging' = StageEntries(bstaging, mem.batch_for_staging, failed)
    /\ ckpt' = CheckpointState(mem.completed_ids, "complete", mem.results)
    /\ resfile' = <<mem.results>>
    /\ bpc' = [bpc EXCEPT !.pc = "done"]
    /\ UNCHANGED <<sheets, mem, calls>>

\* the process is killed inside the loop; what it held in memory is lost
Crash ==
    /\ bpc.pc = "running"
    /\ mem.remaining # <<>>
    /\ bpc.crashes < MaxCrashes
    /\ bpc' = [bpc EXCEPT !.pc = "crashed", !.crashes = @ + 1,
                          !.afterCheckpoint = bpc.checkpointed,
                          !.checkpointed = FALSE]
    /\ mem' = Idle
    /\ UNCHANGED <<sheets, ckpt, resfile, bstaging, calls>>

BatchInit ==
    /\ \E n \in 1..MaxItems :
          sheets \in {[i \in 1..n |-> BatchSheet(i, a[i])] : a \in [1..n -> BatchAnswers]}
    /\ bpc = [pc |-> "idle", crashes |-> 0, checkpointed |-> FALSE,
              afterCheckpoint |-> FALSE, resumed |-> FALSE]
    /\ ckpt = NoFile
    /\ resfile = NoFile
    /\ mem = Idle
    /\ bstaging = [i \in 1..MaxItems |-> NoRow]
    /\ calls = [i \in 1..MaxItems |-> 0]
    /\ PipeIdle
    /\ PureIdle

Start == \E resume \in BOOLEAN : StartRun(resume) /\ UNCHANGED <<pipeVars, pureVars>>

Process == ProcessItem({}) /\ UNCHANGED <<pipeVars, pureVars>>

Finish == FinishRun({}) /\ UNCHANGED <<pipeVars, pureVars>>

Kill == Crash /\ UNCHANGED <<pipeVars, pureVars>>

\* variant: the checkpoint is saved before the batch is written to staging
KillBeforeSave_SaveFirst ==
    /\ bpc.pc = "running"
    /\ bpc.crashes < MaxCrashes
    /\ IF mem.remaining # <<>>
       THEN LET fs == Head(mem.remaining) IN
            /\ Len(mem.batch_for_staging) + 1 >= BATCH_SIZE
            /\ calls' = [calls EXCEPT ![fs.poi_id] = @ + 1]
            /\ ckpt' = CheckpointState(mem.completed_ids \cup {fs.poi_id},
                                       "generation",
                                       Append(mem.results, BatchResult(fs)))
       ELSE /\ mem.batch_for_staging # <<>>
            /\ calls' = calls
            /\ ckpt' = CheckpointState(mem.completed_ids, "complete", mem.results)
    /\ bpc' = [bpc EXCEPT !.pc = "crashed", !.crashes = @ + 1,
                          !.afterCheckpoint = FALSE, !.checkpointed = FALSE]
    /\ mem' = Idle
    /\ UNCHANGED <<sheets, bstaging, resfile, pipeVars, pureVars>>

\* the process is killed between write_to_staging and save_checkpoint, in the
\* loop (lines 508-510) or after it (lines 526-530)
KillBeforeSave ==
    /\ bpc.pc = "running"
    /\ bpc.crashes < MaxCrashes
    /\ IF mem.remaining # <<>>
       THEN LET fs == Head(mem.remaining) IN
            /\ Len(mem.batch_for_staging) + 1 >= BATCH_SIZE
            /\ calls' = [calls EXCEPT ![fs.poi_id] = @ + 1]
            /\ bstaging' = StageEntries(bstaging,
                                        Append(mem.batch_for_staging, BatchResult(fs)),
                                        {})
       ELSE /\ mem.batch_for_staging # <<>>
            /\ calls' = calls
            /\ bstaging' = StageEntries(bstaging, mem.batch_for_staging, {})
    /\ bpc' = [bpc EXCEPT !.pc = "crashed", !.crashes = @ + 1,
                          !.afterCheckpoint = FALSE, !.checkpointed = FALSE]
    /\ mem' = Idle
    /\ UNCHANGED <<sheets, ckpt, resfile, pipeVars, pureVars>>

BatchNext == Start \/ Process \/ Finish \/ Kill \/ KillBeforeSave

BatchSpec == BatchInit /\ [][BatchNext]_vars

\* runs in which upserts of write_to_staging raise
ProcessAny ==
    \E failed \in SUBSET (1..MaxItems) :
        ProcessItem(failed) /\ UNCHANGED <<pipeVars, pureVars>>

FinishAny ==
    \E failed \in SUBSET (1..MaxItems) :
        FinishRun(failed) /\ UNCHANGED <<pipeVars, pureVars>>

DbErrorSpec == BatchInit /\ [][Start \/ ProcessAny \/ FinishAny]_vars

-----------------------------------------------------------------------------
(* fase_r6b_claim_stripping.py: main in execute mode.  sheets holds the     *)
(* target ids, ckpt the checkpoint file, resfile the results file, mem the  *)
(* variables of the running process, calls the requests sent to the text    *)
(* service per target.                                                      *)

\* the source saves the checkpoint every 100 processed targets; scaled to
\* the size of the runs explored
CHECKPOINT_EVERY == 2

\* times the script is started in one behaviour
MaxRuns == 3

StripInit ==
    /\ \E n \in 1..MaxItems : sheets = [i \in 1..n |-> i]
    /\ bpc = [pc |-> "idle", crashes |-> 0, runs |-> 0]
    /\ ckpt = NoFile
    /\ resfile = NoFile
    /\ mem = Idle
    /\ calls = [i \in 1..MaxItems |-> 0]
    /\ bstaging = Idle
    /\ PipeIdle
    /\ PureIdle

\* load of the checkpoint and of the results file; the counters start from
\* the loaded results
StripStart ==
    /\ bpc.pc \in {"idle", "crashed", "done"}
    /\ bpc.runs < MaxRuns
    /\ LET results == IF resfile = NoFile THEN <<>> ELSE resfile[1] IN
       mem' = [processed_ids |-> IF ckpt = NoFile THEN {} ELSE ckpt[1].processed_ids,
               results |-> results,
               success |-> CountIf(results, "status", "success"),
               failed |-> CountIf(results, "status", "failed"),
               i |-> 1]
    /\ bpc' = [bpc EXCEPT !.pc = "running", !.runs = @ + 1]
    /\ UNCHANGED <<sheets, ckpt, resfile, calls, bstaging, pipeVars, pureVars>>

\* one iteration of the loop over the targets; status is how the request to
\* the text service ends
StripItem ==
    /\ bpc.pc = "running"
    /\ mem.i <= Len(sheets)
    /\ LET pid == sheets[mem.i] IN
       IF pid \in mem.processed_ids THEN
           /\ mem' = [mem EXCEPT !.i = @ + 1]
           /\ UNCHANGED <<ckpt, resfile, calls>>
       ELSE
           \E status \in {"success", "failed"} :
              LET results == Append(mem.results, [poi_id |-> pid, status |-> status])
                  success == mem.success + (IF status = "success" THEN 1 ELSE 0)
                  failed == mem.failed + (IF status = "failed" THEN 1 ELSE 0)
                  processed_ids == mem.processed_ids \cup {pid}
                  save == (success + failed) % CHECKPOINT_EVERY = 0
              IN /\ calls' = [calls EXCEPT ![pid] = @ + 1]
                 /\ mem' = [processed_ids |-> processed_ids, results |-> results,
                            success |-> success, failed |-> failed,
                            i |-> mem.i + 1]
                 /\ ckpt' = IF save
                            THEN <<[processed_ids |-> processed_ids,
                                    success |-> success, failed |-> failed]>>
                            ELSE ckpt
                 /\ resfile' = IF save THEN <<results>> ELSE resfile
    /\ UNCHANGED <<bpc, sheets, bstaging, pipeVars, pureVars>>

\* after the loop the results file is written; the checkpoint is not
StripFinish ==
    /\ bpc.pc = "running"
    /\ mem.i > Len(sheets)
    /\ resfile' = <<mem.results>>
    /\ bpc' = [bpc EXCEPT !.pc = "done"]
    /\ mem' = Idle
    /\ UNCHANGED <<sheets, ckpt, calls, bstaging, pipeVars, pureVars>>

\* the process is killed inside the loop
StripKill ==
    /\ bpc.pc = "running"
    /\ mem.i <= Len(sheets)
    /\ bpc.crashes < MaxCrashes
    /\ bpc' = [bpc EXCEPT !.pc = "crashed", !.crashes = @ + 1]
    /\ mem' = Idle
    /\ UNCHANGED <<sheets, ckpt, resfile, calls, bstaging, pipeVars, pureVars>>

StripSpec ==
    StripInit /\ [][StripStart \/ StripItem \/ StripFinish \/ StripKill]_vars

-----------------------------------------------------------------------------
(* The translation fan-out of fase_r6_translations.py ("translations": one  *)
(* task per item, which translates the item's missing languages in turn)    *)
(* and of fase_r6b_retranslate.py ("retranslate": one task per item and     *)
(* language).  sheets holds the futures, bpc the main thread, mem the       *)
(* objects in memory (the checkpoint being built, the updates not yet       *)
(* applied, the stats counters), ckpt the checkpoint file, bstaging the     *)
(* number of UPDATE statements executed per translation column, calls the   *)
(* requests sent per item and language.  A checkpoint is the set of         *)
(* <<item, language>> it lists.                                             *)

TransPois == {1, 2}

LANGUAGES == <<"nl", "de", "es">>

\* MAX_WORKERS of both scripts (10), scaled
MAX_WORKERS == 2

\* CHECKPOINT_INTERVAL of fase_r6_translations.py (100), scaled
CHECKPOINT_INTERVAL == 2

\* BATCH_SIZE of fase_r6b_retranslate.py (200), scaled
RETRANSLATE_BATCH_SIZE == 2

TransTasks(script) ==
    IF script = "translations" THEN {<<p, "*">> : p \in TransPois}
    ELSE TransPois \X Range(LANGUAGES)

\* the languages of item p the checkpoint does not list, in the order of
\* LANGUAGES
MissingLangs(processed, p) ==
    SelectSeq(LANGUAGES, LAMBDA l : <<p, l>> \notin processed)

\* the state when all futures have been submitted
TransInit ==
    /\ \E script \in {"translations", "retranslate"}, resume \in BOOLEAN :
          /\ ckpt \in {{}, {<<1, "nl">>}, {<<1, "nl">>, <<1, "de">>, <<1, "es">>}}
          /\ script = "retranslate" => resume
          /\ LET processed == IF resume THEN ckpt ELSE {} IN
             /\ mem = [processed |-> processed, batch_updates |-> <<>>, stats |-> 0]
             /\ sheets =
                  [t \in TransTasks(script) |->
                     IF script = "translations"
                     THEN [pc |-> IF Len(MissingLangs(processed, t[1])) > 0
                                  THEN "queued" ELSE "skipped",
                           langs |-> <<>>, results |-> <<>>]
                     ELSE [pc |-> IF t \in processed THEN "skipped" ELSE "queued",
                           langs |-> <<t[2]>>, results |-> <<>>]]
          /\ bpc = [script |-> script, pc |-> "waiting", item |-> <<0, "*">>,
                    todo |-> <<>>, count |-> 0]
    /\ bstaging = [k \in TransPois \X Range(LANGUAGES) |-> 0]
    /\ calls = [k \in TransPois \X Range(LANGUAGES) |-> 0]
    /\ resfile = Idle
    /\ PipeIdle
    /\ PureIdle

\* variant: the worker executes the UPDATE of a translation itself
TranslatePoi_WritesStore ==
    /\ \E t \in DOMAIN sheets :
          \/ /\ sheets[t].pc = "queued"
             /\ Cardinality({u \in DOMAIN sheets : sheets[u].pc = "calling"})
                   < MAX_WORKERS
             /\ LET langs == IF bpc.script = "translations"
                             THEN MissingLangs(mem.processed, t[1])
                             ELSE sheets[t].langs
                IN sheets' = [sheets EXCEPT ![t].langs = langs,
                                            ![t].pc = IF langs = <<>> THEN "returned"
                                                      ELSE "calling"]
             /\ UNCHANGED <<calls, mem, bstaging>>
          \/ /\ sheets[t].pc = "calling"
             /\ \E success \in BOOLEAN :
                   LET lang == Head(sheets[t].langs) IN
                   /\ calls' = [calls EXCEPT ![<<t[1], lang>>] = @ + 1]
                   /\ bstaging' = IF success
                                  THEN [bstaging EXCEPT ![<<t[1], lang>>] = @ + 1]
                                  ELSE bstaging
                   /\ sheets' = [sheets EXCEPT
                         ![t].results = Append(@, [poi_id |-> t[1], lang |-> lang,
                                                   success |-> success]),
                         ![t].langs = Tail(@),
                         ![t].pc = IF Tail(sheets[t].langs) = <<>> THEN "returned"
                                   ELSE "calling"]
                   /\ mem' = IF bpc.script = "translations"
                             THEN [mem EXCEPT !.stats = @ + 1] ELSE mem
    /\ UNCHANGED <<bpc, ckpt, resfile, pipeVars, pureVars>>

\* a step of a worker thread in translate_poi: it starts a submitted task
\* when the pool has a free thread (in "translations" it then reads the
\* checkpoint entry of its item), or it sends the request for the next
\* language, counts the outcome in stats under the lock ("translations") and
\* keeps the result; with the last result the future completes
TranslatePoi ==
    /\ \E t \in DOMAIN sheets :
          \/ /\ sheets[t].pc = "queued"
             /\ Cardinality({u \in DOMAIN sheets : sheets[u].pc = "calling"})
                   < MAX_WORKERS
             /\ LET langs == IF bpc.script = "translations"
                             THEN MissingLangs(mem.processed, t[1])
                             ELSE sheets[t].langs
                IN sheets' = [sheets EXCEPT ![t].langs = langs,
                                            ![t].pc = IF langs = <<>> THEN "returned"
                                                      ELSE "calling"]
             /\ UNCHANGED <<calls, mem>>
          \/ /\ sheets[t].pc = "calling"
             /\ \E success \in BOOLEAN :
                   LET lang == Head(sheets[t].langs) IN
                   /\ calls' = [calls EXCEPT ![<<t[1], lang>>] = @ + 1]
                   /\ sheets' = [sheets EXCEPT
                         ![t].results = Append(@, [poi_id |-> t[1], lang |-> lang,
                                                   success |-> success]),
                         ![t].langs = Tail(@),
                         ![t].pc = IF Tail(sheets[t].langs) = <<>> THEN "returned"
                                   ELSE "calling"]
                   /\ mem' = IF bpc.script = "translations"
                             THEN [mem EXCEPT !.stats = @ + 1] ELSE mem
    /\ UNCHANGED <<bpc, ckpt, resfile, bstaging, pipeVars, pureVars>>

\* the UPDATE statements of a list of updates, executed on the store
ApplyUpdates(db, updates) ==
    [k \in DOMAIN db |->
        db[k] + Cardinality({n \in 1..Len(updates) : updates[n] = k})]

\* the main thread takes a completed future from as_completed.  In
\* "retranslate" the body of the loop follows at once: the update is queued,
\* and every RETRANSLATE_BATCH_SIZE results the queued updates are applied
\* and committed and the checkpoint is saved
MainTake ==
    /\ bpc.pc = "waiting"
    /\ \E t \in DOMAIN sheets :
          /\ sheets[t].pc = "returned"
          /\ sheets' = [sheets EXCEPT ![t].pc = "consumed"]
          /\ IF bpc.script = "translations" THEN
                /\ bpc' = [bpc EXCEPT !.pc = "writing", !.item = t,
                                      !.todo = sheets[t].results]
                /\ UNCHANGED <<mem, bstaging, ckpt>>
             ELSE
                LET r == sheets[t].results[1]
                    key == <<r.poi_id, r.lang>>
                    updates == IF r.success THEN Append(mem.batch_updates, key)
                               ELSE mem.batch_updates
                    processed == IF r.success THEN mem.processed \cup {key}
                                 ELSE mem.processed
                    total == bpc.count + 1
                    flush == total % RETRANSLATE_BATCH_SIZE = 0
                IN /\ bpc' = [bpc EXCEPT !.count = total]
                   /\ bstaging' = IF flush THEN ApplyUpdates(bstaging, updates)
                                  ELSE bstaging
                   /\ ckpt' = IF flush THEN processed ELSE ckpt
                   /\ mem' = [mem EXCEPT !.processed = processed,
                                         !.batch_updates = IF flush THEN <<>>
                                                           ELSE updates]
    /\ UNCHANGED <<calls, resfile, pipeVars, pureVars>>

\* "translations": the main thread handles the next result of the future it
\* took (UPDATE and checkpoint entry for a success), or, after the last one,
\* counts the item and every CHECKPOINT_INTERVAL items commits and saves the
\* checkpoint
MainWrite ==
    /\ bpc.pc = "writing"
    /\ IF bpc.todo # <<>> THEN
          LET r == Head(bpc.todo)
              key == <<r.poi_id, r.lang>>
          IN /\ bstaging' = IF r.success THEN [bstaging EXCEPT ![key] = @ + 1]
                            ELSE bstaging
             /\ mem' = IF r.success THEN [mem EXCEPT !.processed = @ \cup {key}]
                       ELSE mem
             /\ bpc' = [bpc EXCEPT !.todo = Tail(@)]
             /\ ckpt' = ckpt
       ELSE
          /\ bpc' = [bpc EXCEPT !.pc = "waiting", !.count = @ + 1]
          /\ ckpt' = IF (bpc.count + 1) % CHECKPOINT_INTERVAL = 0
                     THEN mem.processed ELSE ckpt
          /\ UNCHANGED <<bstaging, mem>>
    /\ UNCHANGED <<sheets, calls, resfile, pipeVars, pureVars>>

\* after the loop: "translations" commits and saves the checkpoint,
\* "retranslate" applies the updates still queued and commits
MainFinish ==
    /\ bpc.pc = "waiting"
    /\ \A t \in DOMAIN sheets : sheets[t].pc \in {"skipped", "consumed"}
    /\ bpc' = [bpc EXCEPT !.pc = "done"]
    /\ IF bpc.script = "translations"
       THEN ckpt' = mem.processed /\ bstaging' = bstaging
       ELSE ckpt' = ckpt /\ bstaging' = ApplyUpdates(bstaging, mem.batch_updates)
    /\ UNCHANGED <<sheets, mem, calls, resfile, pipeVars, pureVars>>

TransSpec ==
    TransInit /\ [][TranslatePoi \/ MainTake \/ MainWrite \/ MainFinish]_vars

-----------------------------------------------------------------------------
(* Claims about the pure functions, checked under PureSpec *)

Gated == vin.fn = "validate" /\ vout # <<>>

Processed == vin.fn = "process" /\ vout # <<>>

GateClaims == IF vin.llm_context_json = <<>> THEN <<>>
              ELSE vin.llm_context_json[1].unsupported_claims

\* C3: a staging row with a HIGH-severity unsupported claim is never approved
\* by validate_content, whatever its rate, tier, text and destination, and the
\* reasons cite the HIGH-severity claim(s).
C3_HighSeverityBlocks ==
    (Gated /\ "HIGH" \in Range(GateClaims))
        => (~vout[1].approved /\ "HIGH_SEVERITY" \in Range(vout[1].reasons))

C3_Witness ==
    /\ Gated
    /\ "HIGH" \in Range(GateClaims)
    /\ vin.llm_context_json[1].hallucination_rate = <<0>>
    /\ vin.llm_context_json[1].data_quality = "rich"
    /\ vin.new_content = Words(40)
    /\ vin.destination_id = 1
    /\ vout[1].reasons = <<"HIGH_SEVERITY">>
    /\ ~vout[1].approved

Judged ==
    /\ Processed
    /\ vout[1].verification # <<>>
    /\ vout[1].verdict # "ERROR"
    /\ vout[1].verification[1].hallucination_rate # <<>>

StoredRate == vout[1].verification[1].hallucination_rate[1]

\* C5: the verdict of every verification result follows its rate:
\* rate = 0 gives PASS, 0 < rate <= 0.20 gives REVIEW, rate > 0.20 gives FAIL.
C5_VerdictThresholds ==
    Judged =>
        /\ (StoredRate = 0 => vout[1].verdict = "PASS")
        /\ ((0 < StoredRate /\ StoredRate <= REVIEW_THRESHOLD)
                => vout[1].verdict = "REVIEW")
        /\ (StoredRate > REVIEW_THRESHOLD => vout[1].verdict = "FAIL")

\* C6: a verification result with a HIGH-severity unsupported claim has
\* verdict FAIL, whatever its rate.
C6_HighSeverityFails ==
    (Processed /\ vout[1].verification # <<>>
       /\ "HIGH" \in Range(vout[1].verification[1].unsupported_claims))
        => vout[1].verdict = "FAIL"

StrictParseFails == vin.response.form # "json"

FieldExtractionFails ==
    ~(vin.response.form = "badjson"
      /\ vin.response.verdict # <<>>
      /\ vin.response.verdict[1] \in Range(VerdictWords))

\* C7: when neither the strict parse nor the extraction of the verdict/rate
\* fields succeeds, the item gets verdict ERROR, rate 1.0 and status
\* review_required, never PASS or REVIEW.
C7_FailSafeParsing ==
    (Processed /\ ~vout[1].error /\ StrictParseFails /\ FieldExtractionFails)
        => /\ vout[1].verdict = "ERROR"
           /\ vout[1].hallucination_rate = <<RATE_ONE>>
           /\ vout[1].status = "review_required"

\* C14: a row created by the batch runner (here from a verification response
\* that parses strictly) has status pending when the item's verdict is PASS
\* or REVIEW and review_required when it is FAIL or ERROR.
C14_InitialStatus ==
    (Processed /\ vin.response.form \in {"json", "error"}) =>
        /\ vout[1].verdict \in {"PASS", "REVIEW"} => vout[1].status = "pending"
        /\ vout[1].verdict \in {"FAIL", "ERROR"} => vout[1].status = "review_required"

GateVerdict == IF vin.llm_context_json = <<>> THEN "missing"
               ELSE vin.llm_context_json[1].verification_verdict

\* C15: validate_content never approves a row whose verification verdict is
\* ERROR or FAIL or whose verification data is missing (shown on rows with a
\* known destination).
C15_ErrorTreatedAsFail ==
    (Gated /\ GateVerdict \in {"ERROR", "FAIL", "missing"}
           /\ vin.destination_id \in KNOWN_DESTINATIONS) => ~vout[1].approved

\* the row holds a tier and a rate
GateRated ==
    /\ Gated
    /\ vin.llm_context_json # <<>>
    /\ vin.llm_context_json[1].data_quality \in Tiers
    /\ vin.llm_context_json[1].hallucination_rate # <<>>

GateRawRate == vin.llm_context_json[1].hallucination_rate[1]

\* 0.30 for tier none, 0.20 for the other tiers, in thousandths
TierThreshold == IF vin.llm_context_json[1].data_quality = "none" THEN 300 ELSE 200

\* C18 (as stated): validate_content blocks approval whenever the rate the
\* row holds is above the threshold of its tier, for every value it may hold.
C18_RateAboveThresholdBlocks ==
    (GateRated /\ GateRawRate > TierThreshold
               /\ vin.destination_id \in KNOWN_DESTINATIONS) => ~vout[1].approved

\* C18 (amended): validate_content blocks approval whenever the rate the row
\* holds, read as a percentage (divided by 100) when it is above 1, is above
\* the threshold of its tier.
C18_ReadRateAboveThresholdBlocks ==
    LET read == IF GateRawRate > 1000 THEN GateRawRate \div 100 ELSE GateRawRate
    IN (GateRated /\ read > TierThreshold) =>
           (~vout[1].approved /\ "HALLUCINATION_RATE" \in Range(vout[1].reasons))

C18_Witness ==
    /\ GateRated
    /\ GateRawRate = 25000
    /\ vin.llm_context_json[1].data_quality = "rich"
    /\ vin.llm_context_json[1].unsupported_claims = <<>>
    /\ vin.new_content = Words(40)
    /\ vin.destination_id = 1
    /\ vout[1].reasons = <<"HALLUCINATION_RATE">>
    /\ ~vout[1].approved

\* C19: validate_content blocks approval for every row whose destination
\* identifier is not in KNOWN_DESTINATIONS, an absent or zero identifier
\* included (shown on rows that hold a rate between 0 and 1).
C19_UnknownDestinationBlocks ==
    (GateRated /\ GateRawRate \in 0..1000 /\ vin.destination_id \notin {1, 2})
        => ~vout[1].approved

\* C20: validate_content blocks approval for every row whose candidate text
\* is empty or missing, whatever its verification data.
C20_EmptyContentBlocks ==
    (Gated /\ vin.new_content \in {<<>>, Null})
        => (~vout[1].approved /\ "EMPTY_CONTENT" \in Range(vout[1].reasons))

C20_Witness ==
    /\ Gated
    /\ vin.new_content = <<>>
    /\ vin.llm_context_json # <<>>
    /\ vin.llm_context_json[1].hallucination_rate = <<0>>
    /\ vin.llm_context_json[1].verification_verdict = "PASS"
    /\ vin.destination_id = 1
    /\ vout[1].reasons = <<"EMPTY_CONTENT">>
    /\ ~vout[1].approved

\* C21: for a text that is not empty, the wording and the word count of the
\* text change neither approved nor the blocking reasons: every other text
\* that is not empty gets the same approved value and the same reasons.
C21_WarningsNonBlocking ==
    (Gated /\ Truthy(vin.new_content)) =>
        \A text \in {t \in GateTexts : Truthy(t)} :
            LET other == validate_content(1, text, vin.llm_context_json,
                                          vin.destination_id)
            IN /\ other.approved = vout[1].approved
               /\ other.reasons = vout[1].reasons

\* a text below the tolerance band with embellishment vocabulary is approved
C21_Witness ==
    /\ Gated
    /\ vout[1].approved
    /\ vout[1].warnings = <<"WORDS_BELOW_MIN", "EMBELLISHMENT">>

\* the word count lies within [min, max] of the tier
WithinTargets(text, quality) ==
    /\ WordTargetsGet(quality).min <= Len(text)
    /\ Len(text) <= WordTargetsGet(quality).max

Generated == Processed /\ ~IsErrorText(vin.gen1)

\* C22: a first candidate within [min, max] of the tier is kept without a
\* retry and word_count_ok is true; otherwise at most WORD_COUNT_RETRIES
\* (>= 1) retries are made, and a retry candidate that is still out of range
\* is accepted with word_count_ok false and the item is verified.
C22_WordCountEnforcement ==
    Generated =>
        /\ WORD_COUNT_RETRIES >= 1
        /\ vout[1].word_retries[1] <= WORD_COUNT_RETRIES
        /\ WithinTargets(vin.gen1, vin.data_quality) =>
              /\ vout[1].word_retries = <<0>>
              /\ vout[1].word_count_ok = <<TRUE>>
              /\ vout[1].new_content = vin.gen1
        /\ (/\ ~WithinTargets(vin.gen1, vin.data_quality)
            /\ ~IsErrorText(vin.gen2)
            /\ ~WithinTargets(vin.gen2, vin.data_quality)) =>
              /\ vout[1].new_content = vin.gen2
              /\ vout[1].word_count_ok = <<FALSE>>
              /\ ~vout[1].error
              /\ vout[1].verification # <<>>
              /\ vout[1].verdict = vin.response.verdict[1]

\* a text that is too long, regenerated once into a text that is too short
C22_Witness ==
    /\ Generated
    /\ vin.data_quality = "rich"
    /\ Len(vin.gen1) = 141
    /\ Len(vin.gen2) = 109
    /\ vout[1].word_retries = <<1>>
    /\ vout[1].word_count_ok = <<FALSE>>
    /\ vout[1].verdict = "PASS"

\* a generation call of the item returned a service error: the first call,
\* or the word-count retry call when one was made
GenerationCallFailed ==
    \/ IsErrorText(vin.gen1)
    \/ /\ ~WithinTargets(vin.gen1, vin.data_quality)
       /\ IsErrorText(vin.gen2)

\* C23: a service error returned by a generation call of the item (the first
\* call or a word-count retry call) is recorded as verdict ERROR for the item.
C23_GenerationErrorIsError ==
    (Processed /\ GenerationCallFailed) =>
        /\ vout[1].verdict = "ERROR"
        /\ ~IsErrorText(vout[1].new_content)

\* C24: the result record of a processed item has a verdict among PASS,
\* REVIEW, FAIL and ERROR.
C24_VerdictOfResult ==
    Processed => vout[1].verdict \in {"PASS", "REVIEW", "FAIL", "ERROR"}

Enhanced == vin.fn = "enhance" /\ vout # <<>>

\* none < minimal < moderate < rich
TierRank(quality) ==
    IF quality = "rich" THEN 3
    ELSE IF quality = "moderate" THEN 2
    ELSE IF quality = "minimal" THEN 1
    ELSE 0

\* evidence of the item that carries a date within the freshness window
FreshDatedEvidence ==
    \/ has_fresh_social(vin.fb)
    \/ vin.deep.extracted_facts /\ vin.deep.freshness_status = "fresh"

\* C29: the quality level of an enhanced fact sheet is never below the old
\* one, and it is above the old one only when fresh, dated evidence exists
\* for the item.
C29_TierMonotone ==
    Enhanced =>
        /\ TierRank(vout[1]) >= TierRank(vin.old_quality)
        /\ TierRank(vout[1]) > TierRank(vin.old_quality) => FreshDatedEvidence

Called == vin.fn = "call" /\ vout # <<>>

\* the outcome of the last attempt the call made
LastOutcome == vin.outcomes[vout[1].attempts]

\* C32: call_mistral makes at most MAX_RETRIES attempts and returns a text
\* or an error string without raising; 429, 5xx and other exceptions are
\* retried, another 4xx ends the call with an error at once, and the wait
\* after a 429 is longer than every wait after another failure.
C32_CallAlwaysReturns ==
    Called =>
        /\ vout[1].attempts <= MAX_RETRIES
        /\ vout[1].result \in {"text", "ERROR"}
        /\ vout[1].result = "text" <=> LastOutcome.kind = "ok"
        /\ vout[1].attempts < MAX_RETRIES =>
              (LastOutcome.kind = "ok"
               \/ (LastOutcome.kind = "http" /\ LastOutcome.code \notin {429, 503}))
        /\ \A i, j \in 1..Len(vout[1].waits) :
              (vout[1].waits[i].after = 429 /\ vout[1].waits[j].after # 429)
                  => vout[1].waits[i].seconds > vout[1].waits[j].seconds

\* C33: the hallucination_rate stored for an item equals unsupported_count /
\* total_claims of the item's verification result, and is 0 when total_claims
\* is 0, on every parsing path.  Rates are in thousandths.
C33_RateIsRatio ==
    (Processed /\ vout[1].llm_context # <<>>) =>
        LET c == vout[1].llm_context[1] IN
        /\ c.hallucination_rate # <<>>
        /\ IF c.total_claims = 0 THEN c.hallucination_rate[1] = 0
           ELSE c.hallucination_rate[1] * c.total_claims
                    = 1000 * c.unsupported_count

-----------------------------------------------------------------------------
(* Claims about promotion, rollback and the audit trail, checked under Spec *)

Candidate(p) == staging[p].detail_description_en

\* audit entries of item p appended by the operation that ran last
NewEntries(p) ==
    {i \in (last.preLen + 1)..Len(history) : history[i].poi_id = p}

\* the step is a run of promote_to_production right after another one
SecondRun == last.op = "promote" /\ last'.op = "promote" /\ last'.n = last.n + 1

Count(p, S) == IF p \in S THEN 1 ELSE 0

\* C1 (as stated): two successive runs of promote_to_production make exactly
\* one production write and exactly one audit entry for every row that was
\* approved before the first run (no statement raising in either run).
C1_ExactlyOnce ==
    [][(SecondRun /\ last.fail = NoFail /\ last'.fail = NoFail) =>
         \A p \in last.handled :
            /\ Count(p, last.wrote) + Count(p, last'.wrote) = 1
            /\ Count(p, last.audited) + Count(p, last'.audited) = 1]_vars

\* C1 (amended): two successive runs of promote_to_production make at most one
\* production write and at most one audit entry for a row approved before the
\* first run: exactly one of each if the candidate differed from production
\* and the first run set the row to applied, none if the candidate equalled
\* production; the second run does nothing for a row the first run set to
\* applied.
C1_PromotionIdempotent ==
    [][SecondRun =>
         \A p \in last.handled :
            /\ Count(p, last.wrote) + Count(p, last'.wrote) <= 1
            /\ Count(p, last.audited) + Count(p, last'.audited) <= 1
            /\ (last.prePOI[p] = Candidate(p)) =>
                  /\ Count(p, last.wrote) + Count(p, last'.wrote) = 0
                  /\ Count(p, last.audited) + Count(p, last'.audited) = 0
            /\ (last.prePOI[p] # Candidate(p) /\ staging[p].status = "applied") =>
                  /\ Count(p, last.wrote) + Count(p, last'.wrote) = 1
                  /\ Count(p, last.audited) + Count(p, last'.audited) = 1
            /\ staging[p].status = "applied" =>
                  /\ p \notin last'.handled
                  /\ POI'[p] = POI[p]
                  /\ staging'[p] = staging[p]
                  /\ history' = history \/ \A i \in (Len(history) + 1)..Len(history') :
                                               history'[i].poi_id # p]_vars

C1_Witness ==
    /\ last.op = "promote" /\ last.prevOp = "promote"
    /\ \E p \in last.prevHandled :
          /\ p \notin last.handled
          /\ staging[p].status = "applied"
          /\ POI[p] = Candidate(p)
          /\ Cardinality(ContentEntries(p)) = 1
          /\ NewEntries(p) = {}

-----------------------------------------------------------------------------

\* the step is rollback_poi(p) right after a run of promote_to_production
\* that wrote the production content of p and its audit entry
RollbackAfterPromotion(p) ==
    /\ last.op = "promote" /\ p \in last.wrote /\ p \in last.audited
    /\ last'.op = "rollback" /\ last'.target = p /\ last'.n = last.n + 1

\* C2: promote_to_production followed by rollback_poi restores the production
\* content of the item to exactly its value before the promotion and appends
\* exactly one new audit entry.
C2_RollbackInverse ==
    [][\A p \in PoiIds :
          RollbackAfterPromotion(p) =>
              /\ POI'[p] = last.prePOI[p]
              /\ Len(history') = Len(history) + 1]_vars

\* C8: a run of promote_to_production that handles an approved row whose
\* candidate equals the production content writes neither the production
\* content nor an audit entry for it, and the row becomes applied once its
\* statements have run without raising.
C8_EqualContentSkip ==
    last.op = "promote" =>
        \A p \in last.handled :
            last.prePOI[p] = Candidate(p) =>
                /\ p \notin last.wrote
                /\ p \notin last.audited
                /\ POI[p] = last.prePOI[p]
                /\ NewEntries(p) = {}
                /\ last.fail[p] = "none" => staging[p].status = "applied"

C8_Witness ==
    /\ last.op = "promote"
    /\ \E p \in last.handled :
          /\ last.prePOI[p] = Candidate(p)
          /\ last.preStatus[p] = "approved"
          /\ staging[p].status = "applied"
          /\ POI[p] = Candidate(p)
          /\ NewEntries(p) = {}
    /\ \E q \in last.handled : q \in last.wrote /\ q \in last.audited

\* C9: after promote_to_production has handled a row whose candidate differs
\* from the production content, either production equals the candidate, an
\* audit entry with the prior value exists and the row is applied, or none of
\* production content, audit trail and status changed for the row.
C9_PromotionAllOrNothing ==
    last.op = "promote" =>
        \A p \in last.handled :
            last.prePOI[p] # Candidate(p) =>
                \/ /\ POI[p] = Candidate(p)
                   /\ \E i \in NewEntries(p) : history[i].old_value = last.prePOI[p]
                   /\ staging[p].status = "applied"
                \/ /\ POI[p] = last.prePOI[p]
                   /\ NewEntries(p) = {}
                   /\ staging[p].status = last.preStatus[p]

\* C10: every change an operation makes to the production content of an item
\* comes with an audit entry of that operation whose old_value is the content
\* immediately before the change.
C10_AuditInvariant ==
    \A p \in PoiIds :
        (last.op # "none" /\ POI[p] # last.prePOI[p]) =>
            \E i \in NewEntries(p) :
                /\ history[i].field_name = EN_FIELD
                /\ history[i].old_value = last.prePOI[p]

-----------------------------------------------------------------------------

-----------------------------------------------------------------------------

\* the step is a successful rollback_poi(p) that directly follows a
\* successful rollback_poi(p), which directly followed a promotion that set
\* the row of p applied
SecondRollback(p) ==
    /\ last.op = "rollback" /\ last.ok /\ last.target = p
    /\ last.prevOp = "promote" /\ p \in last.prevHandled
    /\ last.preStatus[p] = "applied"
    /\ last'.op = "rollback" /\ last'.ok /\ last'.target = p
    /\ last'.n = last.n + 1

\* C39: after a promotion followed by two consecutive successful rollback_poi
\* calls for the same item, production holds the promoted candidate again:
\* the second rollback restores the old_value of the audit entry written by
\* the first one.
C39_RollbackUndoesRollback ==
    [][\A p \in PoiIds :
          SecondRollback(p) =>
              /\ POI'[p] = history[Len(history)].old_value
              /\ POI'[p] = last.prePOI[p]
              /\ POI'[p] = staging[p].detail_description_en]_vars

\* promotion of a new text, first rollback back to the old text, second
\* rollback forward to the promoted text
C39_Witness ==
    /\ last.op = "rollback" /\ last.ok /\ last.prevOp = "rollback"
    /\ last.prevHandled = {last.target}
    /\ Len(history) = 3
    /\ history[1].change_source # "rollback"
    /\ history[2].change_source = "rollback"
    /\ history[3].change_source = "rollback"
    /\ \A i \in 1..3 : history[i].poi_id = last.target
    /\ history[1].new_value # history[1].old_value
    /\ POI[last.target] = history[1].new_value
    /\ last.prePOI[last.target] = history[1].old_value

\* before the step the item has no audit entry of the content field and no
\* staging row with a non-empty snapshot, or the old_value of its latest
\* audit entry of the content field is empty
NothingToRestore(p) ==
    LET entries == {i \in 1..Len(history) :
                        history[i].poi_id = p /\ history[i].field_name = EN_FIELD}
    IN
    IF entries = {}
    THEN staging[p].status = "norow"
            \/ staging[p].old_content_snapshot \in {<<>>, Null}
    ELSE \E i \in entries :
            /\ \A j \in entries : j <= i
            /\ history[i].old_value \in {<<>>, Null}

\* C40: rollback_poi returns False and changes nothing in production, staging
\* or the audit trail when the item has neither an audit entry for the
\* content field nor a staging row with a non-empty old_content_snapshot, or
\* when the value to restore is empty.
C40_RollbackWithoutData ==
    [][\A p \in PoiIds :
          (/\ last'.op = "rollback" /\ last'.target = p
           /\ last'.n = last.n + 1
           /\ NothingToRestore(p)) =>
              /\ ~last'.ok
              /\ POI' = POI /\ staging' = staging /\ history' = history]_vars

\* rollback_poi returned False and wrote nothing for an item whose row is
\* applied and whose latest audit entry has an empty old_value
C40_Witness ==
    /\ last.op = "rollback" /\ ~last.ok
    /\ last.preLen = Len(history)
    /\ last.prePOI = POI
    /\ staging[last.target].status = "applied"
    /\ \E i \in 1..Len(history) :
          /\ history[i].poi_id = last.target
          /\ history[i].old_value \in {<<>>, Null}
          /\ \A j \in (i+1)..Len(history) : history[j].poi_id # last.target

-----------------------------------------------------------------------------
(* Claims about the staging state machine over all passes, checked under    *)
(* FullSpec                                                                 *)

\* C11: no committed state has a row applied and the production content
\* changed for it while the audit entry of that change is absent.
C11_AuditBeforeApplied ==
    \A p \in PoiIds :
        (/\ staging[p].status = "applied"
         /\ last.preStatus[p] # "applied"
         /\ POI[p] # last.prePOI[p])
            => \E i \in NewEntries(p) : history[i].old_value = last.prePOI[p]

\* C12: a row becomes approved only by batch_approve, after validate_content
\* approved it, or by a human review.
C12_ApprovedOnlyByGate ==
    [][\A p \in PoiIds :
          (staging'[p].status = "approved" /\ staging[p].status # "approved") =>
              \/ /\ last'.op = "batch_approve"
                 /\ validate_content(staging[p].poi_id,
                                     staging[p].detail_description_en,
                                     staging[p].llm_context_json,
                                     staging[p].destination_id).approved
              \/ last'.op = "process_reviews"]_vars

\* position of a status in pending -> {approved, review_required, rejected}
\* -> applied
StatusRank(status) ==
    IF status = "pending" THEN 1
    ELSE IF status \in {"approved", "review_required", "rejected"} THEN 2
    ELSE IF status = "applied" THEN 3
    ELSE 0

\* C13: a pass other than the creation/upsert of the row sets applied only
\* from approved, by promotion with production holding the candidate, and
\* never moves the status backward except applied to rejected by rollback.
C13_StatusMachine ==
    [][\A p \in PoiIds :
          (last'.op # "write_to_staging" /\ staging'[p].status # staging[p].status) =>
              /\ staging'[p].status = "applied" =>
                    /\ staging[p].status = "approved"
                    /\ last'.op = "promote"
                    /\ POI'[p] = staging'[p].detail_description_en
              /\ StatusRank(staging'[p].status) < StatusRank(staging[p].status) =>
                    /\ staging[p].status = "applied"
                    /\ staging'[p].status = "rejected"
                    /\ last'.op = "rollback"]_vars

\* the item was promoted over a description that was not empty
Promoted(p) ==
    \E i \in 1..Len(history) :
        /\ history[i].poi_id = p
        /\ history[i].change_source = "fase_r4_staging"
        /\ Truthy(history[i].old_value)

\* C16: once an item has been promoted (here over a description that was not
\* empty), rollback_poi for it succeeds at any later time, whatever passes
\* ran in between.
C16_RollbackAlwaysPossible ==
    [][\A p \in PoiIds :
          (Promoted(p) /\ last'.op = "rollback" /\ last'.target = p
                       /\ last'.n = last.n + 1) => last'.ok]_vars

\* the text is the candidate of the item's staging row
IsStagedCandidate(p, text) ==
    HasRow(p) /\ staging[p].detail_description_en = text

\* the text is the old value of an audit entry of the item
IsAuditedOldValue(p, text) ==
    \E i \in 1..Len(history) :
        history[i].poi_id = p /\ history[i].old_value = text

\* C28: a pass that calls the text service puts into production only a text
\* that was the candidate of the item's staging row, or the old value of an
\* audit entry, before the pass (the reviewer's own text and the link
\* removal of the markdown fix are not generated texts).
C28_NoDirectGeneratedWrite ==
    [][\A p \in PoiIds :
          (POI'[p] # POI[p] /\ last'.op \notin {"process_reviews", "markdown_fix"}) =>
              \/ IsStagedCandidate(p, POI'[p])
              \/ IsAuditedOldValue(p, POI'[p])]_vars

\* the audit entries of the item, in order
EntriesOf(h, p) == SelectSeq(h, LAMBDA e : e.poi_id = p)

\* C30: process_reviews leaves every row of the sheet in the state its
\* decision maps to: production holds the staged candidate and the row is
\* applied (GOED), or production and the staged text hold the reviewer's
\* text and the row is applied (AANPASSEN), or the row is rejected with
\* production and the audit trail unchanged (AFKEUREN).
C30_ReviewDecisions ==
    [][last'.op = "process_reviews" =>
          \A p \in last'.handled :
              \/ /\ staging'[p].status = "applied"
                 /\ staging'[p].detail_description_en = staging[p].detail_description_en
                 /\ POI'[p] = staging[p].detail_description_en
              \/ /\ staging'[p].status = "applied"
                 /\ staging'[p].detail_description_en = EditedText
                 /\ POI'[p] = EditedText
              \/ /\ staging'[p].status = "rejected"
                 /\ POI'[p] = POI[p]
                 /\ EntriesOf(history', p) = EntriesOf(history, p)]_vars

-----------------------------------------------------------------------------
(* Claim about re-runs of the R4 pipeline, checked under RerunSpec *)

\* C27: no operation of a re-run deletes a staging row: a row that exists
\* before a step exists after it.
C27_RowsNeverDeleted ==
    [][\A p \in PoiIds : HasRow(p) => staging'[p].status # "norow"]_vars

-----------------------------------------------------------------------------
(* Claims about promotion and rollback, checked under DryRunSpec *)

DryRunOps == {"batch_approve_dry_run", "promote_dry_run", "rollback_dry_run"}

\* C31: batch_approve, promote_to_production and rollback_poi in dry-run
\* mode leave production, staging and the audit trail unchanged.
C31_DryRunIsPreview ==
    [][last'.op \in DryRunOps =>
          POI' = POI /\ staging' = staging /\ history' = history]_vars

\* a dry-run rollback that reports success for an item whose production
\* content differs from the value it would restore
C31_Witness ==
    /\ last.op = "rollback_dry_run"
    /\ last.ok
    /\ RollbackData(last.target)[1]
    /\ POI[last.target] # RollbackData(last.target)[2]
    /\ staging[last.target].status = "applied"

-----------------------------------------------------------------------------
(* Claim about the threshold promotion, checked under ThresholdSpec *)

\* the stored context holds a numeric rate of at most 0.25 and lists no
\* unsupported claim of severity HIGH
MeetsThreshold(llm_context_json) ==
    /\ llm_context_json \notin NoJson \cup {<<>>}
    /\ llm_context_json[1].hallucination_rate # <<>>
    /\ llm_context_json[1].hallucination_rate[1] <= 250
    /\ \A i \in 1..Len(llm_context_json[1].unsupported_claims) :
          llm_context_json[1].unsupported_claims[i] # "HIGH"

\* the step put the row's candidate into production and set the row applied
PromotedByStep(p) ==
    /\ staging[p].status # "applied"
    /\ staging'[p].status = "applied"
    /\ POI'[p] = staging[p].detail_description_en

-----------------------------------------------------------------------------
(* Claim about the batch runner, checked under BatchSpec *)

\* the items waiting to be processed by the current run
RemainingIds == {mem.remaining[k].poi_id : k \in 1..Len(mem.remaining)}

\* the items the current run has processed
ProcessedIds == {mem.results[k].poi_id : k \in 1..Len(mem.results)}

\* the item was processed by the run before and its record has verdict ERROR
EndedWithError(i) ==
    /\ BatchResult(sheets[i]).verdict = "ERROR"
    /\ calls[i] > Count(i, ProcessedIds)

\* C25: in a run resumed from the checkpoint, every item that ended the run
\* before with verdict ERROR is processed again: it is waiting to be
\* processed or has been processed by this run.
C25_ErrorRetriedOnResume ==
    (bpc.pc = "running" /\ bpc.resumed) =>
        \A i \in 1..Len(sheets) :
            EndedWithError(i) => i \in RemainingIds \cup ProcessedIds

\* the run, killed before, is started again with --resume
ResumeStep == bpc.pc = "crashed" /\ bpc'.pc = "running" /\ bpc'.resumed

\* items the checkpoint file lists as completed
CheckpointedIds == IF ckpt = NoFile THEN {} ELSE ckpt[1].completed_ids

\* C26: when a killed run is resumed, the items whose result records are not
\* recovered from the persisted state are at most one batch; this holds in
\* particular of the items the checkpoint lists as completed.
C26_BoundedLoss ==
    [][ResumeStep =>
          Cardinality({i \in CheckpointedIds :
                          \A k \in 1..Len(mem'.results) :
                              mem'.results[k].poi_id # i}) <= BATCH_SIZE]_vars

-----------------------------------------------------------------------------
(* Claim about the claim-stripping runner, checked under StripSpec *)

\* entries of target i in the results file
EntriesInFile(i) ==
    IF resfile = NoFile THEN 0
    ELSE Cardinality({k \in 1..Len(resfile[1]) : resfile[1][k].poi_id = i})

\* C35: across any sequence of --execute runs of the claim-stripping runner
\* (re-runs after a kill or after a normal completion) each target is sent to
\* the text service at most once, the results file never holds two entries of
\* one target, and after a completed run it holds one entry per target sent.
C35_StripOnce ==
    \A i \in 1..MaxItems :
        /\ calls[i] <= 1
        /\ EntriesInFile(i) <= 1
        /\ (bpc.pc = "done" /\ calls[i] >= 1) => EntriesInFile(i) = 1

-----------------------------------------------------------------------------
(* Claim about the translation fan-out, checked under TransSpec *)

\* the step is one of a worker thread
WorkerStep ==
    \E t \in DOMAIN sheets :
        sheets[t].pc \in {"queued", "calling"} /\ sheets'[t] # sheets[t]

\* the step is the read of the checkpoint entry of the item of task t
ReadsEntry(t) ==
    /\ bpc.script = "translations"
    /\ sheets[t].pc = "queued" /\ sheets'[t].pc # "queued"

\* every write to the store and to the checkpoint is made by the main
\* thread, each translation column is written at most once per run, and no
\* worker reads the checkpoint entry of an item while the main thread is
\* handling the results of that item
SingleWriter ==
    /\ (bstaging' # bstaging \/ ckpt' # ckpt \/ mem'.processed # mem.processed)
          => (bpc' # bpc /\ ~WorkerStep)
    /\ \A k \in DOMAIN bstaging : bstaging'[k] <= 1
    /\ \A t \in DOMAIN sheets :
          ReadsEntry(t) => ~(bpc.pc = "writing" /\ bpc.item[1] = t[1])

\* C37 (as stated): worker threads only call the text service and return
\* results, so a step of a worker changes no object the threads share; every
\* write to the store and to the checkpoint is made by the main thread, each
\* (item, language) field is written at most once per run, and no worker
\* reads the checkpoint entry of an item while the main thread modifies it.
C37_WorkersOnlyReturn ==
    [][/\ WorkerStep => UNCHANGED <<bstaging, ckpt, mem>>
       /\ SingleWriter]_vars

\* C37 (amended): worker threads call the text service, count the outcome in
\* the lock-guarded stats counters and return results; they write neither
\* the store nor the checkpoint nor the queued updates.  Every write to the
\* store and to the checkpoint is made by the main thread, each (item,
\* language) field is written at most once per run, and no worker reads the
\* checkpoint entry of an item while the main thread modifies it.
C37_SingleWriterFanOut ==
    [][/\ WorkerStep =>
             /\ UNCHANGED <<bstaging, ckpt>>
             /\ mem'.processed = mem.processed
             /\ mem'.batch_updates = mem.batch_updates
       /\ SingleWriter]_vars

\* the main thread is writing the results of item 1, of which it has written
\* one column, while a worker is sending requests for item 2
C37_Witness ==
    /\ bpc.script = "translations"
    /\ bpc.pc = "writing" /\ bpc.item = <<1, "*">> /\ bpc.todo # <<>>
    /\ \E l \in Range(LANGUAGES) :
          bstaging[<<1, l>>] = 1 /\ <<1, l>> \in mem.processed
    /\ sheets[<<2, "*">>].pc = "calling"
    /\ sheets[<<2, "*">>].results # <<>>

-----------------------------------------------------------------------------
(* Claim about failing staging writes, checked under DbErrorSpec *)

\* the run has passed item i to write_to_staging and staging has no row of it
StagingWriteFailed(i) ==
    /\ bpc.pc \in {"running", "done"}
    /\ i \in ProcessedIds
    /\ bpc.pc = "running" =>
          \A k \in 1..Len(mem.batch_for_staging) :
              mem.batch_for_staging[k].poi_id # i
    /\ bstaging[i] = NoRow

\* C34: a failure to write to staging halts the run, and the persisted
\* checkpoint is not advanced past the items whose staging write failed.
C34_StagingFailureHalts ==
    \A i \in 1..MaxItems :
        StagingWriteFailed(i) =>
            /\ bpc.pc # "running" /\ bpc.pc # "done"
            /\ i \notin CheckpointedIds

-----------------------------------------------------------------------------
(* Claim about resumed runs, checked under BatchSpec *)

RECURSIVE ResultsOf(_)
ResultsOf(fact_sheets) ==
    IF fact_sheets = <<>> THEN <<>>
    ELSE <<BatchResult(Head(fact_sheets))>> \o ResultsOf(Tail(fact_sheets))

\* the run was killed right after a checkpoint, restarted with --resume and
\* has finished
ResumedRunDone ==
    /\ bpc.pc = "done"
    /\ bpc.crashes = 1
    /\ bpc.afterCheckpoint
    /\ bpc.resumed

\* C4: a run killed after a checkpoint and restarted with --resume ends with
\* the results file, the statistics and the staging rows of one uninterrupted
\* run over all items, and has processed every item exactly once.
C4_ResumeEquivalence ==
    ResumedRunDone =>
        /\ resfile = <<ResultsOf(sheets)>>
        /\ ckpt[1].stats = compute_stats(ResultsOf(sheets))
        /\ bstaging = StageEntries([i \in 1..MaxItems |-> NoRow], ResultsOf(sheets), {})
        /\ \A i \in 1..Len(sheets) : calls[i] = 1

====
